---- MODULE Spec2Model ----
(***************************************************************************)
(* C-Pluff plug-in lifecycle engine: one plug-in context with its          *)
(* registered plug-ins, the resolver, the activator and the uninstaller.   *)
(* Every public operation runs under the context lock and is one action.   *)
(***************************************************************************)
EXTENDS Integers, Sequences, FiniteSets, TLC

VARIABLES
    plugins,          \* context->plugins: identifier -> registered plug-in
    started_plugins,  \* context->started_plugins: list of plug-in pointers
    ext_points,       \* context->ext_points: global id -> extension point
    extensions,       \* context->extensions: ext. point id -> list of extensions
    events,           \* events delivered to the listeners by the last call
    last,             \* the last public call: operation, argument, status
                      \* and the faults that happened in it
    halt,             \* "run", or why the process never returned from a call
    ncalls,           \* number of public calls made so far
    nfaults,          \* number of faults the environment has injected so far
    ndebug,           \* the build: TRUE when assert() is compiled out
    use_count,        \* descriptor -> the uses the context has taken of it
                      \* and not released (descriptors in use only)
    before,           \* the maps as they were before the last install that
                      \* succeeded and the descriptor it installed, while
                      \* the last call is that install or
                      \* the uninstall of its plug-in right after; else empty
    reg_plugins,      \* pcontrol.c plugins: identifier -> registered plug-in
    heap,             \* the registered_plugin_t records ever allocated
    used_plugins,     \* pcontrol.c used_plugins: nodes descriptor -> record
    freed_infos,      \* the descriptors cpi_free_plugin has freed
    data_lock,        \* cpi_acquire_data calls not yet matched by a release
    held,             \* descriptor -> handles the host got and not released
    lock,             \* the context lock: the executor owning it and how
                      \* many times that executor has acquired it
    start_invocation, \* context counter of start functions being executed
    stop_invocation,  \* context counter of stop functions being executed
    observed,         \* what the listeners saw at each event of the last call
    callbacks,        \* the plug-in functions the last call has called
    initialized,      \* cpluff.c initialized: number of initializations
    framework_mutex,  \* cpluff.c framework_mutex: TRUE when not NULL
    framework_locked, \* how many times the framework mutex is locked
    loggers,          \* cpluff.c loggers: empty when NULL, else the list
    log_min_severity, \* cpluff.c log_min_severity
    fhist,            \* the successful cp_init calls and the cp_destroy calls
                      \* the host has made since it last initialized a
                      \* framework it had destroyed as often as initialized
    thread,           \* thread -> where it is in its call, the call and,
                      \* once it has returned, its status
    tlog,             \* the events delivered by the threads, in order, each
                      \* with the thread that delivered it
    tstart            \* the context when the first thread entered its call

vars == <<plugins, started_plugins, ext_points, extensions, events, last,
          halt, ncalls, nfaults, ndebug, use_count, before,
          reg_plugins, heap, used_plugins, freed_infos, data_lock, held,
          lock, start_invocation, stop_invocation, observed, callbacks,
          initialized, framework_mutex, framework_locked, loggers,
          log_min_severity, fhist, thread, tlog, tstart>>

\* the state of the plug-in context of part_001
cvars == <<plugins, started_plugins, ext_points, extensions, use_count, before,
           lock, start_invocation, stop_invocation, observed, callbacks>>

\* the state of the global registry of pcontrol.c
pvars == <<reg_plugins, heap, used_plugins, freed_infos, data_lock, held>>

\* the threads calling into one context
tvars == <<thread, tlog, tstart>>

\* the state of the framework of cpluff.c
fvars == <<initialized, framework_mutex, framework_locked, loggers,
           log_min_severity, fhist>>

----------------------------------------------------------------------------
(* Bounds *)

\* the host makes at most this many public calls
MaxCalls == 5

\* the environment injects at most this many faults (a failing dlopen, dlsym,
\* start function or allocation)
MaxFaults == 1

\* allocations of one call that may be made to fail: the 1st .. MaxAlloc-th
MaxAlloc == 3

----------------------------------------------------------------------------
(* Program constants *)

CP_PLUGIN_UNINSTALLED == 0
CP_PLUGIN_INSTALLED == 1
CP_PLUGIN_RESOLVED == 2
CP_PLUGIN_STARTING == 3
CP_PLUGIN_STOPPING == 4
CP_PLUGIN_ACTIVE == 5

CP_OK == "CP_OK"
CP_OK_PRELIMINARY == "CP_OK_PRELIMINARY"
CP_ERR_RESOURCE == "CP_ERR_RESOURCE"
CP_ERR_UNKNOWN == "CP_ERR_UNKNOWN"
CP_ERR_CONFLICT == "CP_ERR_CONFLICT"
CP_ERR_DEPENDENCY == "CP_ERR_DEPENDENCY"
CP_ERR_RUNTIME == "CP_ERR_RUNTIME"

\* logging limit for no logging
CP_LOG_NONE == 1000

CP_MATCH_NONE == "CP_MATCH_NONE"
CP_MATCH_PERFECT == "CP_MATCH_PERFECT"
CP_MATCH_EQUIVALENT == "CP_MATCH_EQUIVALENT"
CP_MATCH_COMPATIBLE == "CP_MATCH_COMPATIBLE"
CP_MATCH_GREATEROREQUAL == "CP_MATCH_GREATEROREQUAL"

----------------------------------------------------------------------------
(* Plug-in descriptors (cp_plugin_info_t) the host can install *)

Ids == {"A", "B", "C"}
IdOrder == <<"A", "B", "C">>

\* a NULL pointer to a registered plug-in
NULL == "NULL"

\* a NULL version string
NoVersion == <<>>

\* the import of plug-in t: no version, mandatory unless opt
Import(t, opt) ==
    [plugin_id |-> t, version |-> NoVersion, match |-> CP_MATCH_NONE,
     optional |-> opt]

\* the import of plug-in t in version v under match rule m
VersionedImport(t, v, m) ==
    [plugin_id |-> t, version |-> v, match |-> m, optional |-> FALSE]

RECURSIVE ImportsOf(_, _)
\* mandatory unversioned imports of the identifiers of S, in IdOrder
ImportsOf(S, i) ==
    IF i > Len(IdOrder) THEN <<>>
    ELSE (IF IdOrder[i] \in S THEN <<Import(IdOrder[i], FALSE)>> ELSE <<>>)
         \o ImportsOf(S, i + 1)

Descriptor(id, ver, imps, lib, startn, stopn, eps, exts) ==
    [identifier |-> id, version |-> ver, imports |-> imps,
     lib_path |-> lib, start_func_name |-> startn, stop_func_name |-> stopn,
     ext_points |-> eps, extensions |-> exts]

\* the import graphs over Ids: chains, the cycle of A and B, the
\* self-import of C, C importing both A and B; each plug-in has a runtime
\* library and start and stop functions; A declares an extension point
GraphImports ==
    {<<"A", {}>>, <<"A", {"B"}>>, <<"B", {}>>, <<"B", {"A"}>>,
     <<"C", {}>>, <<"C", {"B"}>>, <<"C", {"C"}>>, <<"C", {"A", "B"}>>}

GraphDescriptors ==
    { Descriptor(g[1], <<1, 2, 3, 4>>, ImportsOf(g[2], 1), TRUE, TRUE, TRUE,
                 IF g[1] = "A" THEN <<"A.ep">> ELSE <<>>, <<>>) :
        g \in GraphImports }

\* B without runtime library importing A in a version A does not match;
\* B with a start but no stop function, an optional import of C and an
\* extension of A's extension point; C without runtime library declaring
\* the extension point A declares and an extension of it
OtherDescriptors ==
    { Descriptor("B", <<1, 0, 0, 0>>,
                 <<VersionedImport("A", <<1, 3, 0, 0>>, CP_MATCH_EQUIVALENT)>>,
                 FALSE, FALSE, FALSE, <<>>, <<>>),
      Descriptor("B", <<1, 0, 0, 0>>, <<Import("C", TRUE)>>,
                 TRUE, TRUE, FALSE, <<>>, <<"A.ep">>),
      Descriptor("C", <<1, 0, 0, 0>>, <<>>,
                 FALSE, FALSE, FALSE, <<"A.ep">>, <<"A.ep">>) }

Catalogue == GraphDescriptors \cup OtherDescriptors

----------------------------------------------------------------------------
(* Faults the environment injects into one call *)

FaultPoints ==
    ({"dlopen", "dlsym_start", "dlsym_stop", "start_func"} \X Ids)
    \cup ({"malloc"} \X (1 .. MaxAlloc))

\* the sets of faults of one call when n faults were injected before: at
\* most one fault in a call
Faults(n) ==
    IF n < MaxFaults THEN {{}} \cup { {f} : f \in FaultPoints } ELSE {{}}

----------------------------------------------------------------------------
(* Elementary steps on the running call c *)

\* a registered plug-in (cp_plugin_t) as cp_install_plugin initialises it
NewPlugin(d) ==
    [plugin |-> d, state |-> CP_PLUGIN_INSTALLED,
     imported_null |-> TRUE, imported |-> <<>>, importing |-> <<>>,
     runtime_lib |-> FALSE, start_func |-> FALSE, stop_func |-> FALSE,
     processed |-> FALSE, freed |-> FALSE]

\* the call never returns: the first reason is kept
Halt(c, why) == IF c.halt = "run" THEN [c EXCEPT !.halt = why] ELSE c

\* assert(cond): aborts the process unless compiled with NDEBUG
Expect(c, cond) ==
    IF cond \/ c.ndebug THEN c ELSE Halt(c, "abort")

\* malloc and the allocating list and hash calls: c.oom tells the failure
Malloc(c) ==
    LET f == <<"malloc", c.nalloc + 1>> IN
    [c EXCEPT !.nalloc = @ + 1, !.oom = (f \in c.env),
              !.fired = IF f \in c.env THEN @ \cup {f} ELSE @]

\* the fault f is injected now; it is recorded as having happened
Fails(c, f) == f \in c.env

Fired(c, f) == [c EXCEPT !.fired = @ \cup {f}]

\* a local variable: K on the result x of a call
With(x, K(_)) == K(x)

\* cpi_use_info(plugin): one more use of the descriptor d
cpi_use_info(c, d) ==
    [c EXCEPT !.use_count =
        IF d \in DOMAIN @ THEN [@ EXCEPT ![d] = @ + 1] ELSE (d :> 1) @@ @]

\* cp_release_info(plugin): one use less of the descriptor d, which is
\* destroyed with its last use; releasing what is not in use does nothing
cp_release_info(c, d) ==
    [c EXCEPT !.use_count =
        IF d \notin DOMAIN @ THEN @
        ELSE IF @[d] = 1 THEN [x \in DOMAIN @ \ {d} |-> @[x]]
        ELSE [@ EXCEPT ![d] = @ - 1]]

cpi_deliver_event(c, id, old, new) ==
    [c EXCEPT !.events = Append(@, [plugin_id |-> id, old_state |-> old,
                                    new_state |-> new])]

\* the listeners cpi_deliver_event(context, &event) calls for an event about
\* plug-in id see the recorded state of the plug-in, the context lock and the
\* invocation counters as they are at the delivery
listeners_observe(c, id) ==
    [c EXCEPT !.observed =
        Append(@, [state |-> IF id \in DOMAIN c.plugins
                             THEN c.plugins[id].state ELSE CP_PLUGIN_UNINSTALLED,
                   lock |-> c.lock,
                   start_invocation |-> c.start_invocation,
                   stop_invocation |-> c.stop_invocation])]

\* SetState delivering the event before it assigns the new state
SetState_after_event(c, p, s) ==
    [listeners_observe(cpi_deliver_event(c, p, c.plugins[p].state, s), p)
        EXCEPT !.plugins[p].state = s]

\* event.old_state = plugin->state; event.new_state = plugin->state = s;
\* cpi_deliver_event(context, &event);
SetState(c, p, s) ==
    listeners_observe(
        cpi_deliver_event([c EXCEPT !.plugins[p].state = s],
                          p, c.plugins[p].state, s),
        p)

\* the executor making the public calls of the context
Host == "host"

\* no executor owns the lock
Unlocked == [owner |-> "none", count |-> 0]

\* cpi_lock_context(context): the calling executor acquires the lock, once
\* more if it owns it already; it is called only when no other executor owns
\* the lock
cpi_lock_context(c) ==
    [c EXCEPT !.lock = [owner |-> c.self, count |-> @.count + 1]]

\* cpi_unlock_context had it been left out on the paths that end in an error
cpi_unlock_context_on_success(c) ==
    IF c.halt # "run" \/ c.ret # CP_OK THEN c
    ELSE [c EXCEPT !.lock = IF @.count <= 1 THEN Unlocked
                            ELSE [@ EXCEPT !.count = @ - 1]]

\* cpi_unlock_context(context): one acquisition less; the last one frees
\* the lock; a call that never returns releases nothing
cpi_unlock_context(c) ==
    IF c.halt # "run" THEN c
    ELSE [c EXCEPT !.lock = IF @.count <= 1 THEN Unlocked
                            ELSE [@ EXCEPT !.count = @ - 1]]

cpi_inc_start_invocation(c) == [c EXCEPT !.start_invocation = @ + 1]

cpi_dec_start_invocation(c) == [c EXCEPT !.start_invocation = @ - 1]

cpi_inc_stop_invocation(c) == [c EXCEPT !.stop_invocation = @ + 1]

cpi_dec_stop_invocation(c) == [c EXCEPT !.stop_invocation = @ - 1]

\* plugin->start_func(context, plugin) or plugin->stop_func() is running:
\* the function called, the state of its plug-in and the counters meanwhile
Callback(c, func, p) ==
    [c EXCEPT !.callbacks =
        Append(@, [func |-> func, plugin |-> p, state |-> c.plugins[p].state,
                   lock |-> c.lock,
                   start_invocation |-> c.start_invocation,
                   stop_invocation |-> c.stop_invocation])]

\* plugin->stop_func() called without touching the stop-invocation counter
call_stop_func_uncounted(c, p) ==
    IF c.plugins[p].stop_func THEN Callback(c, "stop", p) ELSE c

\* plugin->stop_func() between cpi_inc_stop_invocation and
\* cpi_dec_stop_invocation, if the plug-in has a stop function
call_stop_func(c, p) ==
    IF c.plugins[p].stop_func
    THEN cpi_dec_stop_invocation(Callback(cpi_inc_stop_invocation(c), "stop", p))
    ELSE c

\* seq without its first element equal to x
RECURSIVE RemoveFirst(_, _)
RemoveFirst(seq, x) ==
    IF seq = <<>> THEN <<>>
    ELSE IF Head(seq) = x THEN Tail(seq)
    ELSE <<Head(seq)>> \o RemoveFirst(Tail(seq), x)

Contains(seq, x) == \E i \in 1 .. Len(seq) : seq[i] = x

\* cpi_ptrset_add(ip->importing, plugin)
cpi_ptrset_add(c, ip, p) ==
    IF Contains(c.plugins[ip].importing, p) THEN [c EXCEPT !.oom = FALSE]
    ELSE LET c1 == Malloc(c) IN
         IF c1.oom THEN c1
         ELSE [c1 EXCEPT !.plugins[ip].importing = Append(@, p)]

\* cpi_ptrset_remove(ip->importing, plugin)
cpi_ptrset_remove(c, ip, p) ==
    [c EXCEPT !.plugins[ip].importing = RemoveFirst(@, p)]

\* the i-th numeric component of the version v: 0 when v does not have it
version_component(v, i) == IF i <= Len(v) THEN v[i] ELSE 0

\* cpi_version_cmp(v1, v2, nc) on versions of up to four numeric components
RECURSIVE version_cmp_from(_, _, _, _)
version_cmp_from(v1, v2, i, nc) ==
    IF i > nc THEN 0
    ELSE IF version_component(v1, i) < version_component(v2, i) THEN -1
    ELSE IF version_component(v1, i) > version_component(v2, i) THEN 1
    ELSE version_cmp_from(v1, v2, i + 1, nc)

cpi_version_cmp(v1, v2, nc) == version_cmp_from(v1, v2, 1, nc)

----------------------------------------------------------------------------
(* Resolver *)

\* unresolve_plugin_runtime had it kept the library handle
unresolve_plugin_runtime_keeps_lib(c, p) ==
    [c EXCEPT !.plugins[p].start_func = FALSE,
              !.plugins[p].stop_func = FALSE]

unresolve_plugin_runtime(c, p) ==
    [c EXCEPT !.plugins[p].start_func = FALSE,
              !.plugins[p].stop_func = FALSE,
              !.plugins[p].runtime_lib = FALSE]

\* the status is left in c.ret
resolve_plugin_runtime(c, p) ==
    LET d == c.plugins[p].plugin
        c0 == Expect(c, ~c.plugins[p].runtime_lib)
    IN
    IF c0.halt # "run" THEN c0
    ELSE IF ~d.lib_path THEN [c0 EXCEPT !.ret = CP_OK]
    ELSE LET c1 == Malloc(c0) IN
    IF c1.oom
    THEN [unresolve_plugin_runtime(c1, p) EXCEPT !.ret = CP_ERR_RESOURCE]
    ELSE IF Fails(c1, <<"dlopen", p>>)
    THEN [unresolve_plugin_runtime(Fired(c1, <<"dlopen", p>>), p)
            EXCEPT !.ret = CP_ERR_RUNTIME]
    ELSE LET c2 == [c1 EXCEPT !.plugins[p].runtime_lib = TRUE] IN
    IF d.start_func_name /\ Fails(c2, <<"dlsym_start", p>>)
    THEN [unresolve_plugin_runtime(Fired(c2, <<"dlsym_start", p>>), p)
            EXCEPT !.ret = CP_ERR_RUNTIME]
    ELSE LET c3 == [c2 EXCEPT !.plugins[p].start_func = d.start_func_name] IN
    IF d.stop_func_name /\ Fails(c3, <<"dlsym_stop", p>>)
    THEN [unresolve_plugin_runtime(Fired(c3, <<"dlsym_stop", p>>), p)
            EXCEPT !.ret = CP_ERR_RUNTIME]
    ELSE [c3 EXCEPT !.plugins[p].stop_func = d.stop_func_name, !.ret = CP_OK]

\* the version check had it compared the leading components only
vermismatch_prefix_only(match, iv, rv) ==
    CASE match = CP_MATCH_NONE -> FALSE
      [] match = CP_MATCH_PERFECT -> cpi_version_cmp(iv, rv, 4) # 0
      [] match = CP_MATCH_EQUIVALENT -> cpi_version_cmp(iv, rv, 2) # 0
      [] match = CP_MATCH_COMPATIBLE -> cpi_version_cmp(iv, rv, 1) # 0
      [] match = CP_MATCH_GREATEROREQUAL -> cpi_version_cmp(iv, rv, 4) < 0

\* the version check of resolve_plugin_import: iv installed, rv required
vermismatch(match, iv, rv) ==
    CASE match = CP_MATCH_NONE -> FALSE
      [] match = CP_MATCH_PERFECT -> cpi_version_cmp(iv, rv, 4) # 0
      [] match = CP_MATCH_EQUIVALENT ->
            cpi_version_cmp(iv, rv, 2) # 0 \/ cpi_version_cmp(iv, rv, 4) < 0
      [] match = CP_MATCH_COMPATIBLE ->
            cpi_version_cmp(iv, rv, 1) # 0 \/ cpi_version_cmp(iv, rv, 4) < 0
      [] match = CP_MATCH_GREATEROREQUAL -> cpi_version_cmp(iv, rv, 4) < 0

\* [status, ip]: the status and the plug-in the import resolves to, or NULL
resolve_plugin_import(c, import) ==
    LET ip == IF import.plugin_id \in DOMAIN c.plugins
              THEN import.plugin_id ELSE NULL
    IN
    IF ip # NULL /\ import.version # NoVersion
       /\ vermismatch(import.match, c.plugins[ip].plugin.version, import.version)
    THEN [status |-> CP_ERR_DEPENDENCY, ip |-> NULL]
    ELSE IF ip = NULL /\ ~import.optional
    THEN [status |-> CP_ERR_DEPENDENCY, ip |-> NULL]
    ELSE [status |-> CP_OK, ip |-> ip]

RECURSIVE resolve_plugin_prel_rec(_, _), prel_imports(_, _, _)

\* the loop over plugin->plugin->imports from index i on; c.ret is the
\* status the loop ends with
prel_imports(c, p, i) ==
    LET imports == c.plugins[p].plugin.imports IN
    IF c.halt # "run" THEN c
    ELSE IF i > Len(imports) THEN [c EXCEPT !.ret = CP_OK]
    ELSE LET c1 == Malloc(c) IN                          \* lnode_create(NULL)
    IF c1.oom THEN [c1 EXCEPT !.ret = CP_ERR_RESOURCE]
    ELSE IF imports[i].plugin_id \in DOMAIN c1.plugins
            /\ c1.plugins[imports[i].plugin_id].freed
    THEN Halt(c1, "undefined")
    ELSE LET r == resolve_plugin_import(c1, imports[i]) IN
    IF r.status # CP_OK THEN [c1 EXCEPT !.ret = r.status]
    ELSE IF r.ip = NULL THEN prel_imports(c1, p, i + 1)
    ELSE LET c2 == [c1 EXCEPT !.plugins[p].imported = Append(@, r.ip)]
             c3 == cpi_ptrset_add(c2, r.ip, p)
         IN
         IF c3.oom THEN [c3 EXCEPT !.ret = CP_ERR_RESOURCE]
         ELSE LET c4 == resolve_plugin_prel_rec(c3, r.ip) IN
              IF c4.halt # "run" THEN c4
              ELSE IF c4.ret # CP_OK /\ c4.ret # CP_OK_PRELIMINARY THEN c4
              ELSE prel_imports(c4, p, i + 1)

resolve_plugin_prel_rec(c, p) ==
    IF c.halt # "run" THEN c
    ELSE IF c.plugins[p].state >= CP_PLUGIN_RESOLVED THEN [c EXCEPT !.ret = CP_OK]
    ELSE IF c.plugins[p].processed THEN [c EXCEPT !.ret = CP_OK_PRELIMINARY]
    ELSE
    LET c1 == Expect([c EXCEPT !.plugins[p].processed = TRUE],
                     c.plugins[p].imported_null)
        c2 == Malloc(c1)                                 \* list_create
    IN
    IF c2.halt # "run" THEN c2
    ELSE IF c2.oom
    THEN [c2 EXCEPT !.plugins[p].imported_null = TRUE,
                    !.plugins[p].imported = <<>>,
                    !.ret = CP_ERR_RESOURCE]
    ELSE
    LET c3 == prel_imports([c2 EXCEPT !.plugins[p].imported_null = FALSE,
                                      !.plugins[p].imported = <<>>], p, 1)
        status == c3.ret
        c4 == Expect(c3, c3.plugins[p].state = CP_PLUGIN_INSTALLED)
        c5 == resolve_plugin_runtime(c4, p)
    IN
    IF c5.halt # "run" THEN c5
    ELSE IF c5.ret # CP_OK THEN c5
    ELSE IF status = CP_OK
    THEN [SetState(c5, p, CP_PLUGIN_RESOLVED) EXCEPT !.ret = status]
    ELSE [c5 EXCEPT !.ret = status]

RECURSIVE resolve_plugin_commit_rec(_, _), commit_imported(_, _, _)

\* the walk over plugin->imported from node i on
commit_imported(c, p, i) ==
    IF c.halt # "run" \/ i > Len(c.plugins[p].imported) THEN c
    ELSE commit_imported(resolve_plugin_commit_rec(c, c.plugins[p].imported[i]),
                         p, i + 1)

resolve_plugin_commit_rec(c, p) ==
    IF c.halt # "run" \/ ~c.plugins[p].processed THEN c
    ELSE LET c1 == [c EXCEPT !.plugins[p].processed = FALSE] IN
    IF c1.plugins[p].state >= CP_PLUGIN_RESOLVED THEN c1
    ELSE IF c1.plugins[p].imported_null THEN Halt(c1, "undefined")
    ELSE LET c2 == commit_imported(c1, p, 1) IN
         IF c2.halt # "run" THEN c2
         ELSE SetState(c2, p, CP_PLUGIN_RESOLVED)

\* resolve_plugin_failed_rec had it cleaned up nothing
resolve_plugin_failed_rec_keeps_all(c, p) == c

RECURSIVE resolve_plugin_failed_rec(_, _), failed_imported(_, _)

\* the loop below had it left the importing list of ip alone: the edge is
\* removed from plugin->imported only
RECURSIVE failed_imported_keeps_importing(_, _)
failed_imported_keeps_importing(c, p) ==
    IF c.halt # "run" \/ c.plugins[p].imported = <<>> THEN c
    ELSE LET ip == Head(c.plugins[p].imported)
             c1 == resolve_plugin_failed_rec(c, ip)
         IN
         IF c1.halt # "run" THEN c1
         ELSE failed_imported_keeps_importing(
                [c1 EXCEPT !.plugins[p].imported = Tail(@)], p)

\* while ((node = list_first(plugin->imported)) != NULL) ...
failed_imported(c, p) ==
    IF c.halt # "run" \/ c.plugins[p].imported = <<>> THEN c
    ELSE LET ip == Head(c.plugins[p].imported)
             c1 == resolve_plugin_failed_rec(c, ip)
         IN
         IF c1.halt # "run" THEN c1
         ELSE failed_imported(
                [cpi_ptrset_remove(c1, ip, p)
                    EXCEPT !.plugins[p].imported = Tail(@)], p)

resolve_plugin_failed_rec(c, p) ==
    IF c.halt # "run" \/ ~c.plugins[p].processed THEN c
    ELSE LET c1 == [c EXCEPT !.plugins[p].processed = FALSE] IN
    IF c1.plugins[p].state >= CP_PLUGIN_RESOLVED THEN c1
    ELSE IF c1.plugins[p].imported_null THEN Halt(c1, "undefined")
    ELSE LET c2 == failed_imported(c1, p) IN
         IF c2.halt # "run" THEN c2
         ELSE [c2 EXCEPT !.plugins[p].imported_null = TRUE]

resolve_plugin(c, p) ==
    With(resolve_plugin_prel_rec(c, p), LAMBDA c1 :
    IF c1.halt # "run" THEN c1
    ELSE IF c1.ret = CP_OK \/ c1.ret = CP_OK_PRELIMINARY
    THEN [resolve_plugin_commit_rec(c1, p) EXCEPT !.ret = CP_OK]
    ELSE [resolve_plugin_failed_rec(c1, p) EXCEPT !.ret = c1.ret])

----------------------------------------------------------------------------
(* Activator *)

\* the status is left in c.ret
start_plugin_runtime(c, p) ==
    LET c1 == SetState(c, p, CP_PLUGIN_STARTING)
        c2 == Malloc(c1)                                 \* lnode_create(plugin)
        c3 == IF c2.plugins[p].start_func
              THEN cpi_dec_start_invocation(
                      Callback(cpi_inc_start_invocation(c2), "start", p))
              ELSE c2
    IN
    IF c2.oom THEN [c2 EXCEPT !.ret = CP_ERR_RESOURCE]
    ELSE IF c2.plugins[p].start_func /\ Fails(c2, <<"start_func", p>>)
    THEN [SetState(call_stop_func(
                      SetState(Fired(c3, <<"start_func", p>>), p, CP_PLUGIN_STOPPING),
                      p),
                   p, CP_PLUGIN_RESOLVED)
            EXCEPT !.ret = CP_ERR_RUNTIME]
    ELSE [SetState([c3 EXCEPT !.started_plugins = Append(@, p)],
                   p, CP_PLUGIN_ACTIVE)
            EXCEPT !.ret = CP_OK]

\* start_plugin_rec without its checks: the plug-in is started whatever its
\* state
start_plugin_rec_unchecked(c, p) == start_plugin_runtime(c, p)

RECURSIVE start_plugin_rec(_, _), start_imported(_, _, _)

\* the walk over plugin->imported from node i on, until a start fails
start_imported(c, p, i) ==
    IF c.halt # "run" THEN c
    ELSE IF i > Len(c.plugins[p].imported) THEN [c EXCEPT !.ret = CP_OK]
    ELSE LET c1 == start_plugin_rec(c, c.plugins[p].imported[i]) IN
         IF c1.halt # "run" \/ c1.ret # CP_OK THEN c1
         ELSE start_imported(c1, p, i + 1)

start_plugin_rec(c, p) ==
    IF c.halt # "run" THEN c
    ELSE IF c.plugins[p].state >= CP_PLUGIN_ACTIVE THEN [c EXCEPT !.ret = CP_OK]
    ELSE IF c.plugins[p].processed THEN [c EXCEPT !.ret = CP_OK]
    ELSE LET c1 == [c EXCEPT !.plugins[p].processed = TRUE] IN
    IF c1.plugins[p].imported_null THEN Halt(c1, "undefined")
    ELSE LET c2 == start_imported(c1, p, 1) IN
    IF c2.halt # "run" \/ c2.ret # CP_OK THEN c2
    ELSE LET c3 == Expect(c2, c2.plugins[p].state = CP_PLUGIN_RESOLVED) IN
         IF c3.halt # "run" THEN c3 ELSE start_plugin_runtime(c3, p)

RECURSIVE reset_processed_dependencies_rec(_, _), reset_imported(_, _, _)

reset_imported(c, p, i) ==
    IF c.halt # "run" \/ i > Len(c.plugins[p].imported) THEN c
    ELSE reset_imported(
            reset_processed_dependencies_rec(c, c.plugins[p].imported[i]),
            p, i + 1)

reset_processed_dependencies_rec(c, p) ==
    IF c.halt # "run" \/ ~c.plugins[p].processed THEN c
    ELSE LET c1 == [c EXCEPT !.plugins[p].processed = FALSE] IN
         IF c1.plugins[p].imported_null THEN Halt(c1, "undefined")
         ELSE reset_imported(c1, p, 1)

cpi_start_plugin(c, p) ==
    With(resolve_plugin(c, p), LAMBDA c1 :
    IF c1.halt # "run" \/ c1.ret # CP_OK THEN c1
    ELSE With(start_plugin_rec(c1, p), LAMBDA c2 :
         [reset_processed_dependencies_rec(c2, p) EXCEPT !.ret = c2.ret]))

stop_plugin_runtime(c, p) ==
    LET c1 == call_stop_func(SetState(c, p, CP_PLUGIN_STOPPING), p) IN
    SetState([c1 EXCEPT !.started_plugins = RemoveFirst(@, p)],
             p, CP_PLUGIN_RESOLVED)

RECURSIVE stop_plugin(_, _), stop_importing(_, _, _)

\* the walk over plugin->importing from node i on
stop_importing(c, p, i) ==
    IF c.halt # "run" \/ i > Len(c.plugins[p].importing) THEN c
    ELSE stop_importing(stop_plugin(c, c.plugins[p].importing[i]), p, i + 1)

stop_plugin(c, p) ==
    IF c.halt # "run" THEN c
    ELSE IF c.plugins[p].state < CP_PLUGIN_ACTIVE THEN c
    ELSE IF c.plugins[p].processed THEN c
    ELSE LET c1 == stop_importing([c EXCEPT !.plugins[p].processed = TRUE], p, 1)
             c2 == Expect(c1, c1.plugins[p].state = CP_PLUGIN_ACTIVE)
         IN
         IF c2.halt # "run" THEN c2
         ELSE [stop_plugin_runtime(c2, p) EXCEPT !.plugins[p].processed = FALSE]

RECURSIVE stop_all_loop(_)

\* while ((node = list_last(context->started_plugins)) != NULL)
\*     stop_plugin(context, lnode_get(node));
\* an iteration that changes nothing is repeated for ever
stop_all_loop(c) ==
    IF c.halt # "run" \/ c.started_plugins = <<>> THEN c
    ELSE LET c1 == stop_plugin(c, c.started_plugins[Len(c.started_plugins)]) IN
         IF c1 = c THEN Halt(c, "hang") ELSE stop_all_loop(c1)

----------------------------------------------------------------------------
(* Uninstaller *)

RECURSIVE unresolve_plugin_rec(_, _), unresolve_importing(_, _)

\* while ((node = list_first(plugin->importing)) != NULL)
\*     unresolve_plugin_rec(context, lnode_get(node));
\* an iteration that changes nothing is repeated for ever
unresolve_importing(c, p) ==
    IF c.halt # "run" \/ c.plugins[p].importing = <<>> THEN c
    ELSE LET c1 == unresolve_plugin_rec(c, Head(c.plugins[p].importing)) IN
         IF c1 = c THEN Halt(c, "hang") ELSE unresolve_importing(c1, p)

RECURSIVE remove_imported(_, _)

\* while ((node = list_first(plugin->imported)) != NULL) ...
remove_imported(c, p) ==
    IF c.plugins[p].imported = <<>> THEN c
    ELSE remove_imported(
            [cpi_ptrset_remove(c, Head(c.plugins[p].imported), p)
                EXCEPT !.plugins[p].imported = Tail(@)], p)

unresolve_plugin_rec(c, p) ==
    IF c.halt # "run" THEN c
    ELSE IF c.plugins[p].state < CP_PLUGIN_RESOLVED THEN c
    ELSE LET c0 == Expect(c, c.plugins[p].state = CP_PLUGIN_RESOLVED) IN
    IF c0.halt # "run" \/ c0.plugins[p].processed THEN c0
    ELSE LET c1 == unresolve_importing([c0 EXCEPT !.plugins[p].processed = TRUE], p)
             c2 == unresolve_plugin_runtime(c1, p)
         IN
         IF c1.halt # "run" THEN c1
         ELSE IF c2.plugins[p].imported_null THEN Halt(c2, "undefined")
         ELSE [SetState(remove_imported(c2, p), p, CP_PLUGIN_INSTALLED)
                 EXCEPT !.plugins[p].processed = FALSE]

unresolve_plugin(c, p) == unresolve_plugin_rec(stop_plugin(c, p), p)

\* f without the key k
Without(f, k) == [x \in DOMAIN f \ {k} |-> f[x]]

RECURSIVE unregister_ext_points(_, _, _), unregister_exts(_, _, _)

\* the first loop of unregister_extensions, from extension point i on
unregister_ext_points(c, d, i) ==
    IF i > Len(d.ext_points) THEN c
    ELSE LET gid == d.ext_points[i] IN
         unregister_ext_points(
            IF gid \in DOMAIN c.ext_points /\ c.ext_points[gid] = d
            THEN [c EXCEPT !.ext_points = Without(@, gid)]
            ELSE c,
            d, i + 1)

\* the second loop of unregister_extensions, from extension i on
unregister_exts(c, d, i) ==
    IF i > Len(d.extensions) THEN c
    ELSE LET epid == d.extensions[i] IN
         unregister_exts(
            IF epid \in DOMAIN c.extensions
            THEN LET el == RemoveFirst(c.extensions[epid],
                                       [plugin |-> d, index |-> i])
                 IN IF el = <<>>
                    THEN [c EXCEPT !.extensions = Without(@, epid)]
                    ELSE [c EXCEPT !.extensions[epid] = el]
            ELSE c,
            d, i + 1)

\* unregister_extensions without its second loop
unregister_ext_points_only(c, d) == unregister_ext_points(c, d, 1)

unregister_extensions(c, d) ==
    unregister_exts(unregister_ext_points(c, d, 1), d, 1)

\* some list of the context still points to the registered plug-in p
Referenced(c, p) ==
    \/ Contains(c.started_plugins, p)
    \/ \E q \in DOMAIN c.plugins :
          Contains(c.plugins[q].imported, p) \/ Contains(c.plugins[q].importing, p)

\* releases the record of p, already taken out of context->plugins; a
\* record freed while a list still points to it leaves undefined behaviour
free_registered_plugin(c, p, rp) ==
    LET c0 == cp_release_info(c, rp.plugin)
        c1 == Expect(Expect(c0, rp.importing = <<>>), rp.imported_null)
    IN
    IF c1.halt = "run" /\ Referenced(c1, p) THEN Halt(c1, "undefined") ELSE c1

uninstall_plugin(c, p) ==
    IF c.halt # "run" THEN c
    ELSE IF c.plugins[p].freed THEN Halt(c, "undefined")
    ELSE IF c.plugins[p].state <= CP_PLUGIN_UNINSTALLED THEN c
    ELSE LET c1 == unresolve_plugin(c, p)
             c2 == Expect(c1, c1.plugins[p].state = CP_PLUGIN_INSTALLED)
         IN
         IF c2.halt # "run" THEN c2
         ELSE LET c3 == SetState(c2, p, CP_PLUGIN_UNINSTALLED)
                  c4 == unregister_extensions(c3, c3.plugins[p].plugin)
                  c5 == [c4 EXCEPT !.plugins = Without(@, p)]
              IN free_registered_plugin(c5, p, c4.plugins[p])

RECURSIVE uninstall_all_loop(_, _)

\* while (1) { hash_scan_begin; if ((node = hash_scan_next) != NULL)
\* uninstall_plugin(context, node); else break; }
\* the hash table yields its first node in the order given by order
uninstall_all_loop(c, order) ==
    IF c.halt # "run" \/ DOMAIN c.plugins = {} THEN c
    ELSE LET i == CHOOSE j \in 1 .. Len(order) :
                     /\ order[j] \in DOMAIN c.plugins
                     /\ \A k \in 1 .. (j - 1) : order[k] \notin DOMAIN c.plugins
         IN uninstall_all_loop(uninstall_plugin(c, order[i]), order)

----------------------------------------------------------------------------
(* Installation *)

RECURSIVE register_ext_points(_, _, _), register_extensions(_, _, _)

\* the loop registering the extension points of d from i on; runs while
\* status == CP_OK, the status is left in c.ret
register_ext_points(c, d, i) ==
    IF c.ret # CP_OK \/ i > Len(d.ext_points) THEN c
    ELSE LET gid == d.ext_points[i] IN
         IF gid \in DOMAIN c.ext_points
         THEN register_ext_points([c EXCEPT !.ret = CP_ERR_CONFLICT], d, i + 1)
         ELSE LET c1 == Malloc(c) IN                     \* hash_alloc_insert
              IF c1.oom
              THEN register_ext_points([c1 EXCEPT !.ret = CP_ERR_RESOURCE], d, i + 1)
              ELSE register_ext_points(
                      [c1 EXCEPT !.ext_points = (gid :> d) @@ @], d, i + 1)

\* the loop registering the extensions of d from i on
register_extensions(c, d, i) ==
    IF c.ret # CP_OK \/ i > Len(d.extensions) THEN c
    ELSE LET epid == d.extensions[i]
             e == [plugin |-> d, index |-> i]
             known == epid \in DOMAIN c.extensions
             c1 == IF known THEN c ELSE Malloc(c)           \* list_create
             c2 == IF known \/ c1.oom THEN c1 ELSE Malloc(c1) \* hash_alloc_insert
         IN
         IF c2.oom /\ ~known THEN [c2 EXCEPT !.ret = CP_ERR_RESOURCE]
         ELSE LET c3 == IF known THEN c2
                        ELSE [c2 EXCEPT !.extensions = (epid :> <<>>) @@ @]
                  c4 == Malloc(c3)                       \* lnode_create(e)
              IN
              IF c4.oom THEN [c4 EXCEPT !.ret = CP_ERR_RESOURCE]
              ELSE register_extensions(
                      [c4 EXCEPT !.extensions[epid] = Append(@, e)], d, i + 1)

\* cp_install_plugin between cpi_lock_context and cpi_unlock_context
install_plugin(c, d) ==
    LET id == d.identifier IN
    IF id \in DOMAIN c.plugins
    THEN [unregister_extensions(c, d) EXCEPT !.ret = CP_ERR_CONFLICT]
    ELSE LET c1 == Malloc(cpi_use_info(c, d)) IN         \* malloc(sizeof(cp_plugin_t))
    IF c1.oom THEN [unregister_extensions(c1, d) EXCEPT !.ret = CP_ERR_RESOURCE]
    ELSE LET c2 == Malloc(c1) IN                         \* list_create
    IF c2.oom THEN [unregister_extensions(c2, d) EXCEPT !.ret = CP_ERR_RESOURCE]
    ELSE LET c3 == Malloc(c2) IN                         \* hash_alloc_insert
    IF c3.oom THEN [unregister_extensions(c3, d) EXCEPT !.ret = CP_ERR_RESOURCE]
    ELSE LET c4 == [c3 EXCEPT !.plugins = (id :> NewPlugin(d)) @@ @, !.ret = CP_OK]
             c5 == register_ext_points(c4, d, 1)
             c6 == register_extensions(c5, d, 1)
         IN
         IF c6.ret = CP_OK
         THEN listeners_observe(
                 cpi_deliver_event(c6, id, CP_PLUGIN_UNINSTALLED,
                                   c6.plugins[id].state),
                 id)
         ELSE [unregister_extensions(c6, d) EXCEPT !.plugins[id].freed = TRUE]

----------------------------------------------------------------------------
(* Public operations of the context: one action per call *)

\* the call starts on the current context with the injected faults env
Call(env) ==
    [plugins |-> plugins, started_plugins |-> started_plugins,
     ext_points |-> ext_points, extensions |-> extensions,
     use_count |-> use_count, events |-> <<>>, halt |-> "run", ndebug |-> ndebug,
     env |-> env, fired |-> {}, nalloc |-> 0, oom |-> FALSE, ret |-> CP_OK,
     self |-> Host, lock |-> lock,
     start_invocation |-> start_invocation, stop_invocation |-> stop_invocation,
     observed |-> <<>>, callbacks |-> <<>>]

\* the call returns (or never does, when c.halt is not "run"); every fault
\* of env has happened in it
Return(c, op, id) ==
    /\ c.fired = c.env
    /\ nfaults' = nfaults + Cardinality(c.env)
    /\ plugins' = c.plugins
    /\ started_plugins' = c.started_plugins
    /\ ext_points' = c.ext_points
    /\ extensions' = c.extensions
    /\ use_count' = c.use_count
    /\ events' = c.events
    /\ halt' = c.halt
    /\ last' = [op |-> op, id |-> id,
                status |-> IF c.halt = "run" THEN c.ret ELSE "none",
                fired |-> c.fired]
    /\ ncalls' = ncalls + 1
    /\ before' = IF op = "install" /\ c.halt = "run" /\ c.ret = CP_OK
                 THEN << [plugins |-> plugins, ext_points |-> ext_points,
                          extensions |-> extensions,
                          installed |-> c.plugins[id].plugin] >>
                 ELSE IF op = "uninstall" /\ last.op = "install" /\ last.id = id
                 THEN before
                 ELSE <<>>
    /\ lock' = c.lock
    /\ start_invocation' = c.start_invocation
    /\ stop_invocation' = c.stop_invocation
    /\ observed' = c.observed
    /\ callbacks' = c.callbacks
    /\ UNCHANGED <<ndebug, pvars, fvars, tvars>>

\* hash_lookup(context->plugins, id) finds a record that was freed
Dangling(c, id) == id \in DOMAIN c.plugins /\ c.plugins[id].freed

\* cp_install_plugin asks for no library and calls no plug-in function
MallocFaults(n) == { F \in Faults(n) : \A f \in F : f[1] = "malloc" }

\* the host may make a call: the process is alive and has returned
CanCall == halt = "run" /\ ncalls < MaxCalls

cp_install_plugin(d, env) ==
    /\ CanCall
    /\ Return(cpi_unlock_context(install_plugin(cpi_lock_context(Call(env)), d)),
              "install", d.identifier)

\* a library or a function of a plug-in can fail only if it is registered
CanFail(env) ==
    \A f \in env : IF f[1] = "malloc" THEN TRUE ELSE f[2] \in DOMAIN plugins

cp_start_plugin(id, env) ==
    /\ CanCall
    /\ CanFail(env)
    /\ LET c == cpi_lock_context(Call(env)) IN
       Return(cpi_unlock_context(
                 IF id \notin DOMAIN c.plugins THEN [c EXCEPT !.ret = CP_ERR_UNKNOWN]
                 ELSE IF Dangling(c, id) THEN Halt(c, "undefined")
                 ELSE cpi_start_plugin(c, id)),
              "start", id)

\* cp_stop_plugin answering CP_OK for an identifier it does not find
cp_stop_plugin_unknown_ok(id) ==
    /\ CanCall
    /\ LET c == cpi_lock_context(Call({})) IN
       Return(cpi_unlock_context(
                 IF id \notin DOMAIN c.plugins THEN [c EXCEPT !.ret = CP_OK]
                 ELSE IF Dangling(c, id) THEN Halt(c, "undefined")
                 ELSE [stop_plugin(c, id) EXCEPT !.ret = CP_OK]),
              "stop", id)

cp_stop_plugin(id) ==
    /\ CanCall
    /\ LET c == cpi_lock_context(Call({})) IN
       Return(cpi_unlock_context(
                 IF id \notin DOMAIN c.plugins THEN [c EXCEPT !.ret = CP_ERR_UNKNOWN]
                 ELSE IF Dangling(c, id) THEN Halt(c, "undefined")
                 ELSE [stop_plugin(c, id) EXCEPT !.ret = CP_OK]),
              "stop", id)

\* cp_stop_all_plugins(context), called by the host or by
\* cp_uninstall_all_plugins
stop_all_plugins(c) ==
    cpi_unlock_context(stop_all_loop(cpi_lock_context(c)))

cp_stop_all_plugins ==
    /\ CanCall
    /\ Return(stop_all_plugins(Call({})), "stop_all", "")

cp_uninstall_plugin(id) ==
    /\ CanCall
    /\ LET c == cpi_lock_context(Call({})) IN
       Return(cpi_unlock_context(
                 IF id \notin DOMAIN c.plugins THEN [c EXCEPT !.ret = CP_ERR_UNKNOWN]
                 ELSE [uninstall_plugin(c, id) EXCEPT !.ret = CP_OK]),
              "uninstall", id)

Orders == { o \in [1 .. Cardinality(Ids) -> Ids] :
              \A i, j \in DOMAIN o : i # j => o[i] # o[j] }

cp_uninstall_all_plugins(order) ==
    /\ CanCall
    /\ Return(cpi_unlock_context(
                 uninstall_all_loop(
                    stop_all_plugins(cpi_lock_context(Call({}))), order)),
              "uninstall_all", "")

Init ==
    /\ plugins = <<>>
    /\ started_plugins = <<>>
    /\ ext_points = <<>>
    /\ extensions = <<>>
    /\ events = <<>>
    /\ last = [op |-> "none", id |-> "", status |-> CP_OK, fired |-> {}]
    /\ halt = "run"
    /\ ncalls = 0
    /\ nfaults = 0
    /\ ndebug \in BOOLEAN
    /\ use_count = <<>>
    /\ before = <<>>
    /\ reg_plugins = <<>>
    /\ heap = <<>>
    /\ used_plugins = <<>>
    /\ freed_infos = {}
    /\ data_lock = 0
    /\ held = <<>>
    /\ lock = Unlocked
    /\ start_invocation = 0
    /\ stop_invocation = 0
    /\ observed = <<>>
    /\ callbacks = <<>>
    /\ initialized = 0
    /\ framework_mutex = FALSE
    /\ framework_locked = 0
    /\ loggers = <<>>
    /\ log_min_severity = CP_LOG_NONE
    /\ fhist = [inits |-> 0, destroys |-> 0]
    /\ thread = [t \in {"T1", "T2"} |->
                   [pc |-> "idle", call |-> <<>>, status |-> CP_OK]]
    /\ tlog = <<>>
    /\ tstart = <<>>

Next ==
    \/ \E d \in Catalogue, env \in MallocFaults(nfaults) : cp_install_plugin(d, env)
    \/ \E id \in Ids, env \in Faults(nfaults) : cp_start_plugin(id, env)
    \/ \E id \in Ids : cp_stop_plugin(id)
    \/ cp_stop_all_plugins
    \/ \E id \in Ids : cp_uninstall_plugin(id)
    \/ \E order \in Orders : cp_uninstall_all_plugins(order)

Spec == Init /\ [][Next]_vars

----------------------------------------------------------------------------
(* The global registry of pcontrol.c with the descriptor handles it gives  *)
(* to the host. The host of this registry loads and unloads plug-ins and   *)
(* gets and releases their descriptors; it never starts a plug-in, so      *)
(* every registered plug-in is INSTALLED.                                  *)

RegIds == {"A", "B"}

\* the call starts on the current registry with the injected faults env
RegCall(env) ==
    [reg_plugins |-> reg_plugins, heap |-> heap, used_plugins |-> used_plugins,
     freed_infos |-> freed_infos, data_lock |-> data_lock,
     events |-> <<>>, halt |-> "run", ndebug |-> ndebug,
     env |-> env, fired |-> {}, nalloc |-> 0, oom |-> FALSE, ret |-> CP_OK,
     handle |-> <<>>]

cpi_acquire_data(g) == [g EXCEPT !.data_lock = @ + 1]

cpi_release_data(g) == [g EXCEPT !.data_lock = @ - 1]

\* cpi_install_plugin between cpi_acquire_data and cpi_release_data; the new
\* record takes the next place of the heap
install_registered(g, d) ==
    IF d.identifier \in DOMAIN g.reg_plugins
    THEN [g EXCEPT !.ret = CP_ERR_CONFLICT]
    ELSE LET g1 == Malloc(g) IN                          \* malloc(sizeof(registered_plugin_t))
    IF g1.oom THEN [g1 EXCEPT !.ret = CP_ERR_RESOURCE]
    ELSE LET g2 == Malloc(g1) IN                         \* list_create
    IF g2.oom THEN [g2 EXCEPT !.ret = CP_ERR_RESOURCE]
    ELSE LET g3 == Malloc(g2) IN                         \* hash_alloc_insert
    IF g3.oom THEN [g3 EXCEPT !.ret = CP_ERR_RESOURCE]
    ELSE cpi_deliver_event(
            [g3 EXCEPT !.heap = Append(@, [plugin |-> d, use_count |-> 0,
                                           state |-> CP_PLUGIN_INSTALLED,
                                           freed |-> FALSE]),
                       !.reg_plugins = (d.identifier :> (Len(g3.heap) + 1)) @@ @,
                       !.ret = CP_OK],
            d.identifier, CP_PLUGIN_UNINSTALLED, CP_PLUGIN_INSTALLED)

cpi_install_plugin(g, d) ==
    cpi_release_data(install_registered(cpi_acquire_data(g), d))

\* cpi_free_plugin(plugin): freeing a descriptor twice is undefined
cpi_free_plugin(g, d) ==
    IF d \in g.freed_infos THEN Halt(g, "undefined")
    ELSE [g EXCEPT !.freed_infos = @ \cup {d}]

\* free_registered_plugin of pcontrol.c on the record rp; no record of this
\* registry has edges, so its two assertions hold
release_registered_plugin(g, rp) ==
    [cpi_free_plugin(g, g.heap[rp].plugin) EXCEPT !.heap[rp].freed = TRUE]

\* unload_plugin freeing the record whatever its use count
unload_plugin_always_frees(g, id) ==
    LET rp == g.reg_plugins[id] IN
    release_registered_plugin(
        cpi_deliver_event(
            [g EXCEPT !.heap[rp].state = CP_PLUGIN_UNINSTALLED,
                      !.reg_plugins = Without(@, id)],
            id, g.heap[rp].state, CP_PLUGIN_UNINSTALLED),
        rp)

\* unload_plugin(node) for the node of id; unresolve_plugin returns at its
\* first check since the plug-in is INSTALLED
unload_plugin(g, id) ==
    LET rp == g.reg_plugins[id] IN
    IF g.heap[rp].state <= CP_PLUGIN_UNINSTALLED THEN g
    ELSE LET g1 == cpi_deliver_event(
                      [g EXCEPT !.heap[rp].state = CP_PLUGIN_UNINSTALLED],
                      id, g.heap[rp].state, CP_PLUGIN_UNINSTALLED)
             g2 == [g1 EXCEPT !.reg_plugins = Without(@, id)]
         IN IF g2.heap[rp].use_count = 0
            THEN release_registered_plugin(g2, rp)
            ELSE g2

\* the nodes of used_plugins with key d, the one hash_lookup finds first
UsedNodes(g, d) == { i \in 1 .. Len(g.used_plugins) : g.used_plugins[i].key = d }

\* cp_get_plugin between cpi_acquire_data and cpi_release_data; inserting a
\* key the hash already holds fails an assertion of the hash library
get_registered(g, id) ==
    IF id \notin DOMAIN g.reg_plugins
    THEN [g EXCEPT !.ret = CP_ERR_UNKNOWN, !.handle = <<>>]
    ELSE LET rp == g.reg_plugins[id]
             d == g.heap[rp].plugin
             g1 == Malloc(g)                             \* hash_alloc_insert
         IN
         IF g1.oom THEN [g1 EXCEPT !.ret = CP_ERR_RESOURCE, !.handle = <<>>]
         ELSE LET g2 == Expect(g1, UsedNodes(g1, d) = {}) IN
              IF g2.halt # "run" THEN g2
              ELSE [g2 EXCEPT !.used_plugins = <<[key |-> d, rp |-> rp]>> \o @,
                              !.heap[rp].use_count = @ + 1,
                              !.ret = CP_OK, !.handle = <<d>>]

cp_get_plugin_body(g, id) ==
    cpi_release_data(get_registered(cpi_acquire_data(g), id))

\* cp_release_plugin: the path of an unknown descriptor returns without
\* cpi_release_data; reading a freed descriptor or record is undefined
cp_release_plugin_body(g, d) ==
    LET g0 == cpi_acquire_data(g) IN
    IF UsedNodes(g0, d) = {}
    THEN IF d \in g0.freed_infos THEN Halt(g0, "undefined") ELSE g0
    ELSE LET n == CHOOSE i \in UsedNodes(g0, d) :
                     \A j \in UsedNodes(g0, d) : i <= j
             rp == g0.used_plugins[n].rp
         IN
         IF g0.heap[rp].freed THEN Halt(g0, "undefined")
         ELSE LET g1 == [g0 EXCEPT !.heap[rp].use_count = @ - 1] IN
              IF g1.heap[rp].use_count # 0 THEN cpi_release_data(g1)
              ELSE LET g2 == [g1 EXCEPT !.used_plugins =
                                 SubSeq(@, 1, n - 1) \o SubSeq(@, n + 1, Len(@))]
                   IN cpi_release_data(
                         IF g2.heap[rp].state = CP_PLUGIN_UNINSTALLED
                         THEN release_registered_plugin(g2, rp)
                         ELSE g2)

\* the call returns; the host counts the handle it got or gave back, each
\* a sequence of at most one descriptor
RegReturn(g, op, id, got, gave) ==
    /\ g.fired = g.env
    /\ nfaults' = nfaults + Cardinality(g.env)
    /\ reg_plugins' = g.reg_plugins
    /\ heap' = g.heap
    /\ used_plugins' = g.used_plugins
    /\ freed_infos' = g.freed_infos
    /\ data_lock' = g.data_lock
    /\ held' = IF g.halt = "run" /\ got # <<>>
               THEN IF got[1] \in DOMAIN held
                    THEN [held EXCEPT ![got[1]] = @ + 1]
                    ELSE (got[1] :> 1) @@ held
               ELSE IF g.halt = "run" /\ gave # <<>> /\ held[gave[1]] > 0
               THEN [held EXCEPT ![gave[1]] = @ - 1]
               ELSE held
    /\ events' = g.events
    /\ halt' = g.halt
    /\ last' = [op |-> op, id |-> id,
                status |-> IF g.halt = "run" THEN g.ret ELSE "none",
                fired |-> g.fired,
                serial |-> IF gave # <<>> THEN gave[1].serial
                           ELSE IF got # <<>> THEN got[1].serial ELSE 0]
    /\ ncalls' = ncalls + 1
    /\ UNCHANGED <<ndebug, cvars, fvars, tvars>>

\* cp_load_plugin installs a descriptor it has just created
cp_load_plugin(id, env) ==
    /\ CanCall
    /\ RegReturn(cpi_install_plugin(RegCall(env),
                    [identifier |-> id, serial |-> Len(heap) + 1]),
                 "load", id, <<>>, <<>>)

cp_get_plugin(id, env) ==
    /\ CanCall
    /\ LET g == cp_get_plugin_body(RegCall(env), id) IN
       RegReturn(g, "get", id, g.handle, <<>>)

\* the host releases a descriptor it has once got
cp_release_plugin(d) ==
    /\ CanCall
    /\ RegReturn(cp_release_plugin_body(RegCall({}), d),
                 "release", d.identifier, <<>>, <<d>>)

cp_unload_plugin(id) ==
    /\ CanCall
    /\ LET g == cpi_acquire_data(RegCall({})) IN
       RegReturn(cpi_release_data(
                    IF id \in DOMAIN g.reg_plugins
                    THEN [unload_plugin(g, id) EXCEPT !.ret = CP_OK]
                    ELSE [g EXCEPT !.ret = CP_ERR_UNKNOWN]),
                 "unload", id, <<>>, <<>>)

NextRegistry ==
    \/ \E id \in RegIds, env \in MallocFaults(nfaults) : cp_load_plugin(id, env)
    \/ \E id \in RegIds, env \in MallocFaults(nfaults) : cp_get_plugin(id, env)
    \/ \E d \in DOMAIN held : cp_release_plugin(d)
    \/ \E id \in RegIds : cp_unload_plugin(id)

SpecRegistry == Init /\ [][NextRegistry]_vars

----------------------------------------------------------------------------
(* The import check of the resolver on its own: the host installs one      *)
(* plug-in A in some version, and the resolver checks an import of A.      *)

\* a version has at most this many components
MaxComponents == 4

\* each component of a version is at most this
MaxComponent == 1

\* the import check is made at most this many calls after the start
MaxImportCalls == 2

\* the version strings: one to MaxComponents numeric components
Versions ==
    UNION { [1 .. n -> 0 .. MaxComponent] : n \in 1 .. MaxComponents }

MatchRules ==
    {CP_MATCH_NONE, CP_MATCH_PERFECT, CP_MATCH_EQUIVALENT,
     CP_MATCH_COMPATIBLE, CP_MATCH_GREATEROREQUAL}

\* A in the version a, with no import and no runtime library
VersionDescriptors ==
    { Descriptor("A", a, <<>>, FALSE, FALSE, FALSE, <<>>, <<>>) : a \in Versions }

\* the imports of A a descriptor can declare
VersionImports ==
    { [plugin_id |-> "A", version |-> b, match |-> m, optional |-> o] :
        b \in Versions \cup {NoVersion}, m \in MatchRules, o \in BOOLEAN }

\* the host installs A, once
install_version(d) ==
    /\ plugins = <<>>
    /\ cp_install_plugin(d, {})

\* resolve_plugin_import on an import of the installed plug-in; its status
\* and the plug-in it fills in are kept in last
resolve_import(import) ==
    /\ halt = "run"
    /\ ncalls < MaxImportCalls
    /\ import.plugin_id \in DOMAIN plugins
    /\ LET r == resolve_plugin_import(Call({}), import) IN
       last' = [op |-> "resolve_import", id |-> import.plugin_id,
                status |-> r.status, fired |-> {}, import |-> import,
                ip |-> r.ip]
    /\ ncalls' = ncalls + 1
    /\ UNCHANGED <<cvars, pvars, fvars, tvars, events, halt, nfaults, ndebug>>

NextImport ==
    \/ \E d \in VersionDescriptors : install_version(d)
    \/ \E import \in VersionImports : resolve_import(import)

SpecImport == Init /\ [][NextImport]_vars

----------------------------------------------------------------------------
(* The host installs A in some version and B with one import of A, then    *)
(* starts B, which resolves it.                                            *)

\* B with one import of A, a runtime library and a start function
VersionImporters ==
    { Descriptor("B", <<1>>, <<import>>, TRUE, TRUE, FALSE, <<>>, <<>>) :
        import \in VersionImports }

\* the host installs B, once
install_importer(d) ==
    /\ "B" \notin DOMAIN plugins
    /\ cp_install_plugin(d, {})

\* the host starts B
start_importer ==
    /\ "B" \in DOMAIN plugins
    /\ cp_start_plugin("B", {})

NextMismatch ==
    \/ \E d \in VersionDescriptors : install_version(d)
    \/ \E d \in VersionImporters : install_importer(d)
    \/ start_importer

SpecMismatch == Init /\ [][NextMismatch]_vars

----------------------------------------------------------------------------
(* The framework of cpluff.c: its initialization count, its mutex and its   *)
(* loggers. The host initializes and destroys the framework and adds and   *)
(* removes loggers while it holds an initialization.                       *)

\* the host initializes the framework at most this many times before it
\* has destroyed it as often
MaxInit == 3

\* the calls cp_destroy makes when it uninitializes the framework
Teardown ==
    <<"cpi_info", "cpi_destroy_all_contexts", "cpi_destroy_all_infos", "reset">>

\* the logger functions of the host
Loggers == {"L1", "L2"}

\* the minimum severities the host asks for
Severities == {0, 1}

\* what can fail in cp_init
InitFaults ==
    {{}} \cup { {<<f, "">>} : f \in {"bindtextdomain", "cpi_create_mutex", "list_create"} }

\* the two allocations of cp_add_logger
LoggerFaults == {{}} \cup { {<<"malloc", n>>} : n \in 1 .. 2 }

\* the call starts on the current framework with the injected faults env
FwCall(env) ==
    [initialized |-> initialized, framework_mutex |-> framework_mutex,
     framework_locked |-> framework_locked, loggers |-> loggers,
     log_min_severity |-> log_min_severity, halt |-> "run", ndebug |-> ndebug,
     env |-> env, fired |-> {}, nalloc |-> 0, oom |-> FALSE, ret |-> CP_OK,
     calls |-> <<>>]

\* the call f calls the function named func
Calls(f, func) == [f EXCEPT !.calls = Append(@, func)]

cpi_lock_framework(f) == [f EXCEPT !.framework_locked = @ + 1]

cpi_unlock_framework(f) == [f EXCEPT !.framework_locked = @ - 1]

\* reset(): the loggers and their list are freed, the mutex is destroyed
reset(f) ==
    [Calls(f, Teardown[4]) EXCEPT !.loggers = <<>>, !.framework_mutex = FALSE]

\* the body of cp_init
cp_init_body(f) ==
    IF f.initialized = 0
    THEN IF Fails(f, <<"bindtextdomain", "">>)
         THEN [reset(Fired(f, <<"bindtextdomain", "">>))
                 EXCEPT !.ret = CP_ERR_RESOURCE]
         ELSE IF Fails(f, <<"cpi_create_mutex", "">>)
         THEN [reset(Fired(f, <<"cpi_create_mutex", "">>))
                 EXCEPT !.ret = CP_ERR_RESOURCE]
         ELSE IF Fails(f, <<"list_create", "">>)
         THEN [reset(Fired([f EXCEPT !.framework_mutex = TRUE],
                           <<"list_create", "">>))
                 EXCEPT !.ret = CP_ERR_RESOURCE]
         ELSE [f EXCEPT !.framework_mutex = TRUE, !.loggers = << <<>> >>,
                        !.initialized = @ + 1]
    ELSE [f EXCEPT !.initialized = @ + 1]

\* cp_destroy tearing the framework down whatever the count
cp_destroy_always(f) ==
    reset(Calls(Calls(Calls([f EXCEPT !.initialized = @ - 1], Teardown[1]),
                      Teardown[2]), Teardown[3]))

\* the body of cp_destroy
cp_destroy_body(f) ==
    LET f0 == Expect(f, f.initialized > 0)
        f1 == [f0 EXCEPT !.initialized = @ - 1]
        f2 == Expect(f1, ~f1.framework_mutex \/ f1.framework_locked = 0)
    IN
    IF f0.halt # "run" THEN f0
    ELSE IF f1.initialized # 0 THEN f1
    ELSE IF f2.halt # "run" THEN f2
    ELSE reset(Calls(Calls(Calls(f2, Teardown[1]), Teardown[2]), Teardown[3]))

\* the least min_severity of the logger holders of list from i on, at most nms
RECURSIVE least_severity(_, _, _)
least_severity(list, i, nms) ==
    IF i > Len(list) THEN nms
    ELSE least_severity(list, i + 1,
                        IF list[i].min_severity < nms
                        THEN list[i].min_severity ELSE nms)

update_logging_limits(f) ==
    [f EXCEPT !.log_min_severity = least_severity(f.loggers[1], 1, CP_LOG_NONE)]

\* list_find(loggers, &l, comp_logger): the index of the holder, or 0
list_find(list, logger) ==
    IF \E i \in 1 .. Len(list) : list[i].logger = logger
    THEN CHOOSE i \in 1 .. Len(list) :
            /\ list[i].logger = logger
            /\ \A j \in 1 .. i - 1 : list[j].logger # logger
    ELSE 0

\* the body of cp_add_logger
cp_add_logger_body(f, logger, min_severity) ==
    LET f0 == cpi_lock_framework(f)
        node == list_find(f0.loggers[1], logger)
        holder == [logger |-> logger, min_severity |-> min_severity]
    IN
    IF node = 0
    THEN LET f1 == Malloc(f0)                            \* malloc(sizeof(logger_t))
             f2 == Malloc(f1)                            \* lnode_create(lh)
         IN
         IF f1.oom \/ f2.oom
         THEN [Calls(cpi_unlock_framework(f2), "cpi_error")
                 EXCEPT !.ret = CP_ERR_RESOURCE]
         ELSE cpi_unlock_framework(update_logging_limits(
                 [f2 EXCEPT !.loggers[1] = Append(@, holder), !.ret = CP_OK]))
    ELSE cpi_unlock_framework(update_logging_limits(
            [f0 EXCEPT !.loggers[1][node] = holder, !.ret = CP_OK]))

\* the list without its i-th node
list_delete(list, i) ==
    [j \in 1 .. Len(list) - 1 |-> IF j < i THEN list[j] ELSE list[j + 1]]

\* the body of cp_remove_logger
cp_remove_logger_body(f, logger) ==
    LET f0 == cpi_lock_framework(f)
        node == list_find(f0.loggers[1], logger)
    IN
    IF node # 0
    THEN cpi_unlock_framework(update_logging_limits(
            [f0 EXCEPT !.loggers[1] = list_delete(@, node)]))
    ELSE cpi_unlock_framework(f0)

\* the call returns (or aborts); every fault of env has happened in it
FwReturn(f, op, id) ==
    /\ f.fired = f.env
    /\ initialized' = f.initialized
    /\ framework_mutex' = f.framework_mutex
    /\ framework_locked' = f.framework_locked
    /\ loggers' = f.loggers
    /\ log_min_severity' = f.log_min_severity
    /\ halt' = f.halt
    /\ last' = [op |-> op, id |-> id,
                status |-> IF f.halt = "run" THEN f.ret ELSE "none",
                fired |-> f.fired, calls |-> f.calls]
    /\ fhist' = IF f.halt # "run" THEN fhist
                ELSE IF op = "init" /\ f.ret = CP_OK
                THEN IF fhist.destroys = fhist.inits
                     THEN [inits |-> 1, destroys |-> 0]
                     ELSE [fhist EXCEPT !.inits = @ + 1]
                ELSE IF op = "destroy"
                THEN [fhist EXCEPT !.destroys = @ + 1]
                ELSE fhist
    /\ UNCHANGED <<cvars, pvars, tvars, events, ncalls, nfaults, ndebug>>

cp_init(env) ==
    /\ halt = "run"
    /\ IF fhist.destroys = fhist.inits THEN TRUE ELSE fhist.inits < MaxInit
    /\ FwReturn(cp_init_body(FwCall(env)), "init", "")

\* the host destroys the framework once for each initialization it holds
cp_destroy ==
    /\ halt = "run"
    /\ initialized > 0
    /\ FwReturn(cp_destroy_body(FwCall({})), "destroy", "")

\* the host uses the loggers of an initialized framework only
cp_add_logger(logger, min_severity, env) ==
    /\ halt = "run"
    /\ initialized > 0
    /\ FwReturn(cp_add_logger_body(FwCall(env), logger, min_severity),
                "add_logger", logger)

cp_remove_logger(logger) ==
    /\ halt = "run"
    /\ initialized > 0
    /\ FwReturn(cp_remove_logger_body(FwCall({}), logger),
                "remove_logger", logger)

NextFramework ==
    \/ \E env \in InitFaults : cp_init(env)
    \/ cp_destroy
    \/ \E l \in Loggers, s \in Severities, env \in LoggerFaults :
          cp_add_logger(l, s, env)
    \/ \E l \in Loggers : cp_remove_logger(l)

SpecFramework == Init /\ [][NextFramework]_vars

----------------------------------------------------------------------------
(* Two threads on one context. The host installs plug-ins, then each of    *)
(* the two threads makes one call that changes the context. A call is     *)
(* entered, acquires the context lock, runs its body and releases the     *)
(* lock; the body of a start call is two steps, resolve_plugin and then   *)
(* start_plugin_rec, with the status of the first kept by the thread.     *)

Threads == {"T1", "T2"}

\* the host installs at most this many plug-ins before the threads start
MaxSetupCalls == 2

\* A without imports and B importing A
ThreadCatalogue ==
    { d \in GraphDescriptors :
        \/ d.identifier = "A" /\ d.imports = <<>>
        \/ d.identifier = "B" /\ d.imports = ImportsOf({"A"}, 1) }

\* the calls a thread can make
ThreadOps ==
    { [op |-> "install", id |-> d.identifier, d |-> <<d>>] : d \in ThreadCatalogue }
    \cup { [op |-> o, id |-> id, d |-> <<>>] :
             o \in {"start", "stop", "uninstall"}, id \in {"A", "B"} }

\* the context as a call finds it
Context(c) ==
    [plugins |-> c.plugins, started_plugins |-> c.started_plugins,
     ext_points |-> c.ext_points, extensions |-> c.extensions,
     use_count |-> c.use_count, lock |-> c.lock,
     start_invocation |-> c.start_invocation,
     stop_invocation |-> c.stop_invocation]

\* the thread t starts a call on the context x
CallOn(x, t) ==
    [plugins |-> x.plugins, started_plugins |-> x.started_plugins,
     ext_points |-> x.ext_points, extensions |-> x.extensions,
     use_count |-> x.use_count, events |-> <<>>, halt |-> "run", ndebug |-> ndebug,
     env |-> {}, fired |-> {}, nalloc |-> 0, oom |-> FALSE, ret |-> CP_OK,
     self |-> t, lock |-> x.lock,
     start_invocation |-> x.start_invocation,
     stop_invocation |-> x.stop_invocation,
     observed |-> <<>>, callbacks |-> <<>>]

\* cpi_lock_context had it never waited
lock_available_always(l, t) == TRUE

\* cpi_lock_context(context) of the thread t returns at once: the lock l is
\* free or t owns it; otherwise t waits
lock_available(l, t) == l.owner \in {"none", t}

\* the body of the call o between cpi_lock_context and cpi_unlock_context
thread_body(c, o) ==
    IF o.op = "install" THEN install_plugin(c, o.d[1])
    ELSE IF o.id \notin DOMAIN c.plugins THEN [c EXCEPT !.ret = CP_ERR_UNKNOWN]
    ELSE IF o.op = "start"
    THEN IF Dangling(c, o.id) THEN Halt(c, "undefined") ELSE cpi_start_plugin(c, o.id)
    ELSE IF o.op = "stop"
    THEN IF Dangling(c, o.id) THEN Halt(c, "undefined")
         ELSE [stop_plugin(c, o.id) EXCEPT !.ret = CP_OK]
    ELSE [uninstall_plugin(c, o.id) EXCEPT !.ret = CP_OK]

\* the whole call o of thread t on the context x, nothing running beside it
RunCall(x, t, o) ==
    cpi_unlock_context(thread_body(cpi_lock_context(CallOn(x, t)), o))

\* the first step of the body: all of it, or for cp_start_plugin of a
\* registered plug-in the call of resolve_plugin
thread_body_first(c, o) ==
    IF o.op = "start" /\ o.id \in DOMAIN c.plugins /\ ~Dangling(c, o.id)
    THEN resolve_plugin(c, o.id)
    ELSE thread_body(c, o)

\* the rest of cpi_start_plugin after resolve_plugin has returned CP_OK; the
\* plug-in pointer is dangling if the plug-in was removed in between
thread_body_second(c, o) ==
    IF o.id \notin DOMAIN c.plugins THEN Halt(c, "undefined")
    ELSE With(start_plugin_rec(c, o.id), LAMBDA c2 :
         [reset_processed_dependencies_rec(c2, o.id) EXCEPT !.ret = c2.ret])

\* the events of the call c, each with the thread that delivered it
RECURSIVE Tagged(_, _)
Tagged(evs, t) ==
    IF evs = <<>> THEN <<>>
    ELSE <<[thread |-> t, event |-> Head(evs)]>> \o Tagged(Tail(evs), t)

\* the step of thread t has brought its call to c; pc is where t is now
ThreadStep(t, c, pc) ==
    /\ plugins' = c.plugins
    /\ started_plugins' = c.started_plugins
    /\ ext_points' = c.ext_points
    /\ extensions' = c.extensions
    /\ use_count' = c.use_count
    /\ lock' = c.lock
    /\ start_invocation' = c.start_invocation
    /\ stop_invocation' = c.stop_invocation
    /\ observed' = c.observed
    /\ callbacks' = c.callbacks
    /\ events' = c.events
    /\ halt' = c.halt
    /\ tlog' = tlog \o Tagged(c.events, t)
    /\ thread' = [thread EXCEPT ![t].pc = pc,
                                ![t].status = IF pc = "done" THEN c.ret ELSE @]
    /\ UNCHANGED <<before, last, ncalls, nfaults, ndebug, pvars, fvars, tstart>>

\* the host installs a plug-in before any thread has made its call
setup_install(d) ==
    /\ tstart = <<>>
    /\ ncalls < MaxSetupCalls
    /\ cp_install_plugin(d, {})

\* the thread t enters its call o (cpi_check_invocation has returned)
thread_invoke(t, o) ==
    /\ halt = "run"
    /\ thread[t].pc = "idle"
    /\ thread' = [thread EXCEPT ![t] = [pc |-> "entered", call |-> <<o>>,
                                        status |-> CP_OK]]
    /\ tstart' = IF tstart = <<>> THEN <<Context(Call({}))>> ELSE tstart
    /\ UNCHANGED <<cvars, pvars, fvars, events, last, halt, ncalls, nfaults,
                   ndebug, tlog>>

\* cpi_lock_context returns in the thread t
thread_lock(t) ==
    /\ halt = "run"
    /\ thread[t].pc = "entered"
    /\ lock_available(lock, t)
    /\ ThreadStep(t, cpi_lock_context(CallOn(Context(Call({})), t)), "locked")

\* the call o goes on to start_plugin_rec after its first step c: it is a
\* cp_start_plugin call whose resolve_plugin has returned CP_OK
goes_on(c, o) ==
    /\ o.op = "start"
    /\ o.id \in DOMAIN plugins
    /\ ~Dangling(Call({}), o.id)
    /\ c.halt = "run"
    /\ c.ret = CP_OK

\* the first step of the body has brought the call of t to c
ThreadFirstStep(t, c) ==
    IF goes_on(c, thread[t].call[1])
    THEN ThreadStep(t, c, "resolved")
    ELSE ThreadStep(t, cpi_unlock_context(c), "done")

\* the thread t runs the first step of the body; unless resolve_plugin has
\* returned CP_OK the call releases the lock and returns
thread_first(t) ==
    /\ halt = "run"
    /\ thread[t].pc = "locked"
    /\ ThreadFirstStep(t, thread_body_first(CallOn(Context(Call({})), t),
                                           thread[t].call[1]))

\* the thread t starts the plug-in it has resolved, releases the lock and
\* returns
thread_second(t) ==
    /\ halt = "run"
    /\ thread[t].pc = "resolved"
    /\ ThreadStep(t, cpi_unlock_context(
                        thread_body_second(CallOn(Context(Call({})), t),
                                           thread[t].call[1])),
                  "done")

NextThreads ==
    \/ \E d \in ThreadCatalogue : setup_install(d)
    \/ \E t \in Threads, o \in ThreadOps : thread_invoke(t, o)
    \/ \E t \in Threads : thread_lock(t)
    \/ \E t \in Threads : thread_first(t)
    \/ \E t \in Threads : thread_second(t)

SpecThreads == Init /\ [][NextThreads]_vars

----------------------------------------------------------------------------
(* Two threads on the framework of cpluff.c. Each thread calls cp_init and *)
(* cp_destroy; neither function takes a lock, so the reads and writes of   *)
(* the statements of the two threads interleave. tlog records what each    *)
(* thread has created, completed and torn down.                            *)

\* each thread makes at most this many calls
MaxThreadCalls == 2

\* the entries what of thread t in tlog
Logged(t, what) ==
    Cardinality({ i \in DOMAIN tlog : tlog[i] = [thread |-> t, what |-> what] })

\* the calls thread t has begun
Begun(t) ==
    Logged(t, "cp_init") + Logged(t, "cp_destroy")
       + (IF thread[t].pc \in {"init_mutex", "init_list", "init_load", "init_store"}
          THEN 1 ELSE 0)

\* a step of thread t inside cp_init or cp_destroy
FwStep(t, pc, reg, log) ==
    /\ thread' = [thread EXCEPT ![t].pc = pc, ![t].call = reg]
    /\ tlog' = tlog \o log
    /\ UNCHANGED <<cvars, pvars, events, nfaults, ndebug, last,
                   framework_locked, log_min_severity, tstart>>

\* cp_init: if (!initialized)
init_test(t) ==
    /\ halt = "run"
    /\ thread[t].pc = "idle"
    /\ Begun(t) < MaxThreadCalls
    /\ FwStep(t, IF initialized = 0 THEN "init_mutex" ELSE "init_load", <<>>, <<>>)
    /\ ncalls' = ncalls + 1
    /\ UNCHANGED <<initialized, framework_mutex, loggers, fhist, halt>>

\* cp_init: framework_mutex = cpi_create_mutex()
init_mutex(t) ==
    /\ thread[t].pc = "init_mutex"
    /\ framework_mutex' = TRUE
    /\ FwStep(t, "init_list", <<>>, <<[thread |-> t, what |-> "cpi_create_mutex"]>>)
    /\ UNCHANGED <<initialized, loggers, fhist, halt, ncalls>>

\* cp_init: loggers = list_create(LISTCOUNT_T_MAX)
init_list(t) ==
    /\ thread[t].pc = "init_list"
    /\ loggers' = << <<>> >>
    /\ FwStep(t, "init_load", <<>>, <<[thread |-> t, what |-> "list_create"]>>)
    /\ UNCHANGED <<initialized, framework_mutex, fhist, halt, ncalls>>

\* cp_init: initialized++, the read
init_load(t) ==
    /\ thread[t].pc = "init_load"
    /\ FwStep(t, "init_store", <<initialized>>, <<>>)
    /\ UNCHANGED <<initialized, framework_mutex, loggers, fhist, halt, ncalls>>

\* cp_init: initialized++, the write, and return CP_OK
init_store(t) ==
    /\ thread[t].pc = "init_store"
    /\ initialized' = thread[t].call[1] + 1
    /\ fhist' = [fhist EXCEPT !.inits = @ + 1]
    /\ FwStep(t, "idle", <<>>, <<[thread |-> t, what |-> "cp_init"]>>)
    /\ UNCHANGED <<framework_mutex, loggers, halt, ncalls>>

\* cp_destroy: assert(initialized > 0) and the read of initialized--; a
\* thread destroys the framework once for each cp_init it has completed
destroy_load(t) ==
    /\ halt = "run"
    /\ thread[t].pc = "idle"
    /\ Begun(t) < MaxThreadCalls
    /\ Logged(t, "cp_init") > Logged(t, "cp_destroy")
    /\ halt' = IF initialized > 0 THEN "run" ELSE IF ndebug THEN "run" ELSE "abort"
    /\ FwStep(t, IF halt' = "run" THEN "destroy_store" ELSE "idle",
              <<initialized>>, <<[thread |-> t, what |-> "cp_destroy"]>>)
    /\ ncalls' = ncalls + 1
    /\ UNCHANGED <<initialized, framework_mutex, loggers, fhist>>

\* cp_destroy: the write of initialized--, and if (!initialized) the
\* teardown that ends in reset()
destroy_store(t) ==
    /\ thread[t].pc = "destroy_store"
    /\ initialized' = thread[t].call[1] - 1
    /\ fhist' = [fhist EXCEPT !.destroys = @ + 1]
    /\ loggers' = IF initialized' = 0 THEN <<>> ELSE loggers
    /\ framework_mutex' = IF initialized' = 0 THEN FALSE ELSE framework_mutex
    /\ FwStep(t, "idle", <<>>,
              IF initialized' = 0 THEN <<[thread |-> t, what |-> "reset"]>> ELSE <<>>)
    /\ UNCHANGED <<halt, ncalls>>

NextFrameworkThreads ==
    \E t \in Threads :
        \/ init_test(t)
        \/ init_mutex(t)
        \/ init_list(t)
        \/ init_load(t)
        \/ init_store(t)
        \/ destroy_load(t)
        \/ destroy_store(t)

SpecFrameworkThreads == Init /\ [][NextFrameworkThreads]_vars

----------------------------------------------------------------------------
(* The host installing again the descriptor a registered plug-in was       *)
(* installed from.                                                         *)

\* cp_install_plugin(context, plugin) where plugin is the descriptor of the
\* registered plug-in id
cp_reinstall_plugin(id) ==
    /\ CanCall
    /\ id \in DOMAIN plugins
    /\ ~plugins[id].freed
    /\ Return(cpi_unlock_context(
                 install_plugin(cpi_lock_context(Call({})), plugins[id].plugin)),
              "reinstall", id)

NextReinstall ==
    \/ \E d \in Catalogue, env \in MallocFaults(nfaults) : cp_install_plugin(d, env)
    \/ \E id \in Ids : cp_reinstall_plugin(id)
    \/ \E id \in Ids : cp_uninstall_plugin(id)

SpecReinstall == Init /\ [][NextReinstall]_vars

----------------------------------------------------------------------------
(* Vocabulary of the properties *)

Ev(id, old, new) == [plugin_id |-> id, old_state |-> old, new_state |-> new]

\* the position of the first event e in the sequence evs, 0 when absent
FirstIndex(evs, e) ==
    IF \E i \in 1 .. Len(evs) : evs[i] = e
    THEN CHOOSE i \in 1 .. Len(evs) :
            evs[i] = e /\ \A j \in 1 .. (i - 1) : evs[j] # e
    ELSE 0

\* the number of events e in evs
Count(evs, e) == Cardinality({ i \in 1 .. Len(evs) : evs[i] = e })

\* the registered plug-ins the imported list of p points to in the map pl
ImportedSet(pl, p) ==
    { pl[p].imported[i] : i \in 1 .. Len(pl[p].imported) } \cap DOMAIN pl

\* the plug-ins reachable from those of S through at most n imported edges
RECURSIVE ReachWithin(_, _, _)
ReachWithin(pl, S, n) ==
    IF n = 0 THEN S
    ELSE ReachWithin(pl, S \cup UNION { ImportedSet(pl, q) : q \in S }, n - 1)

\* the plug-ins p transitively imports in pl
TransImported(pl, p) ==
    ReachWithin(pl, ImportedSet(pl, p), Cardinality(DOMAIN pl))

\* the step is the public call op on id
IsCall(op, id) == last'.op = op /\ last'.id = id /\ ncalls' = ncalls + 1

\* the call of the step returned status
Returned(status) == halt' = "run" /\ last'.status = status

\* the descriptor of the catalogue with identifier id importing exactly S
Graph(id, S) ==
    Descriptor(id, <<1, 2, 3, 4>>, ImportsOf(S, 1), TRUE, TRUE, TRUE,
               IF id = "A" THEN <<"A.ep">> ELSE <<>>, <<>>)

\* id is registered and freshly installed from descriptor d
Fresh(id, d) == id \in DOMAIN plugins /\ plugins[id] = NewPlugin(d)

----------------------------------------------------------------------------
(* Properties *)

\* C1: when start(P) returns CP_OK, P is ACTIVE and every plug-in reachable
\* from P through imported edges is ACTIVE, whether or not the call had to
\* resolve them.
StartActivatesImports ==
    (halt = "run" /\ last.op = "start" /\ last.status = CP_OK) =>
        /\ plugins[last.id].state = CP_PLUGIN_ACTIVE
        /\ \A q \in TransImported(plugins, last.id) :
              plugins[q].state = CP_PLUGIN_ACTIVE

\* C2: with A (no imports) and B (importing A) freshly installed and nothing
\* failing, start(B) delivers exactly A: INSTALLED->RESOLVED, B:
\* INSTALLED->RESOLVED, A: RESOLVED->STARTING, A: STARTING->ACTIVE, B:
\* RESOLVED->STARTING, B: STARTING->ACTIVE and leaves started_plugins = [A, B].
ChainStartEvents ==
    [][ ( /\ Fresh("A", Graph("A", {})) /\ Fresh("B", Graph("B", {"A"}))
          /\ started_plugins = <<>>
          /\ IsCall("start", "B") /\ nfaults' = nfaults )
        => /\ Returned(CP_OK)
           /\ events' =
                << Ev("A", CP_PLUGIN_INSTALLED, CP_PLUGIN_RESOLVED),
                   Ev("B", CP_PLUGIN_INSTALLED, CP_PLUGIN_RESOLVED),
                   Ev("A", CP_PLUGIN_RESOLVED, CP_PLUGIN_STARTING),
                   Ev("A", CP_PLUGIN_STARTING, CP_PLUGIN_ACTIVE),
                   Ev("B", CP_PLUGIN_RESOLVED, CP_PLUGIN_STARTING),
                   Ev("B", CP_PLUGIN_STARTING, CP_PLUGIN_ACTIVE) >>
           /\ started_plugins' = <<"A", "B">> ]_vars

\* A and B import each other, both are INSTALLED and not yet resolved
CycleInstalled ==
    /\ Fresh("A", Graph("A", {"B"}))
    /\ Fresh("B", Graph("B", {"A"}))

\* C3: with A and B importing each other, both INSTALLED, and nothing
\* failing, start(A) returns CP_OK, delivers exactly one INSTALLED->RESOLVED
\* event for A and one for B, and leaves both ACTIVE and in started_plugins.
CycleStart ==
    [][ (CycleInstalled /\ IsCall("start", "A") /\ nfaults' = nfaults)
        => /\ Returned(CP_OK)
           /\ \A id \in {"A", "B"} :
                /\ Count(events', Ev(id, CP_PLUGIN_INSTALLED, CP_PLUGIN_RESOLVED)) = 1
                /\ plugins'[id].state = CP_PLUGIN_ACTIVE
                /\ Contains(started_plugins', id) ]_vars

\* the call of the step failed while resolving: it returned an error of the
\* resolver and started no plug-in
ResolveFailed ==
    /\ halt' = "run"
    /\ last'.status \in {CP_ERR_DEPENDENCY, CP_ERR_RUNTIME}
    /\ \A i \in 1 .. Len(events') : events'[i].new_state # CP_PLUGIN_STARTING

\* C4: with A and B importing each other, when the resolving of a start
\* call on A or B fails (library not opened, symbol missing), both A and B
\* are INSTALLED afterwards and no INSTALLED->RESOLVED event was delivered
\* for either.
CycleResolveAtomic ==
    [][ ( /\ CycleInstalled
          /\ (IsCall("start", "A") \/ IsCall("start", "B"))
          /\ ResolveFailed )
        => \A id \in {"A", "B"} :
              /\ plugins'[id].state = CP_PLUGIN_INSTALLED
              /\ Count(events', Ev(id, CP_PLUGIN_INSTALLED, CP_PLUGIN_RESOLVED)) = 0
      ]_vars

\* the version v of an installed plug-in satisfies the import i
VersionMatches(v, i) ==
    i.version = NoVersion \/ ~vermismatch(i.match, v, i.version)

\* C5: between calls, every registered plug-in P with state >= RESOLVED has
\* for each non-optional import a plug-in Q in P.imported with the imported
\* identifier, a matching version and state >= RESOLVED.
ResolvedImportsResolved ==
    halt = "run" =>
        \A p \in DOMAIN plugins :
            plugins[p].state >= CP_PLUGIN_RESOLVED =>
                \A k \in 1 .. Len(plugins[p].plugin.imports) :
                    LET i == plugins[p].plugin.imports[k] IN
                    ~i.optional =>
                        \E q \in ImportedSet(plugins, p) :
                            /\ q = i.plugin_id
                            /\ VersionMatches(plugins[q].plugin.version, i)
                            /\ plugins[q].state >= CP_PLUGIN_RESOLVED

RECURSIVE Replay(_, _, _)
Replay(list, evs, i) ==
    IF i > Len(evs) THEN list
    ELSE Replay(IF evs[i].new_state = CP_PLUGIN_ACTIVE
                THEN Append(list, evs[i].plugin_id)
                ELSE IF evs[i].old_state = CP_PLUGIN_ACTIVE
                THEN RemoveFirst(list, evs[i].plugin_id)
                ELSE list,
                evs, i + 1)

\* C7: between calls, started_plugins holds exactly the ACTIVE plug-ins,
\* each once, in the order of their STARTING->ACTIVE events.
StartedIsActive ==
    [][ halt' = "run" =>
          /\ \A id \in Ids :
                Contains(started_plugins', id) <=>
                    (id \in DOMAIN plugins' /\ plugins'[id].state = CP_PLUGIN_ACTIVE)
          /\ \A i, j \in 1 .. Len(started_plugins') :
                i # j => started_plugins'[i] # started_plugins'[j]
          /\ started_plugins' = Replay(started_plugins, events', 1) ]_vars

\* C8: stop(P) on a registered P returns CP_OK; every ACTIVE plug-in Q that
\* transitively imports P gets its ACTIVE->STOPPING and STOPPING->RESOLVED
\* events before P's ACTIVE->STOPPING event; afterwards neither P nor any
\* plug-in transitively importing P is ACTIVE.
StopStopsDependents ==
    [][ \A p \in DOMAIN plugins :
          (~plugins[p].freed /\ IsCall("stop", p)) =>
            /\ Returned(CP_OK)
            /\ plugins'[p].state # CP_PLUGIN_ACTIVE
            /\ \A q \in DOMAIN plugins' :
                  p \in TransImported(plugins', q) =>
                      plugins'[q].state # CP_PLUGIN_ACTIVE
            /\ \A q \in DOMAIN plugins \ {p} :
                  (plugins[q].state = CP_PLUGIN_ACTIVE
                   /\ p \in TransImported(plugins, q)) =>
                      LET ip == FirstIndex(events', Ev(p, CP_PLUGIN_ACTIVE, CP_PLUGIN_STOPPING))
                          iq == FirstIndex(events', Ev(q, CP_PLUGIN_ACTIVE, CP_PLUGIN_STOPPING))
                          jq == FirstIndex(events', Ev(q, CP_PLUGIN_STOPPING, CP_PLUGIN_RESOLVED))
                      IN iq > 0 /\ jq > iq /\ (ip > 0 => jq < ip) ]_vars

\* C9: stop-all returns from every state with started_plugins empty and no
\* plug-in ACTIVE, and an ACTIVE plug-in Q importing an ACTIVE plug-in P is
\* stopped before P.
StopAllDrains ==
    [][ IsCall("stop_all", "") =>
          /\ halt' = "run"
          /\ started_plugins' = <<>>
          /\ \A q \in DOMAIN plugins' : plugins'[q].state # CP_PLUGIN_ACTIVE
          /\ \A q \in DOMAIN plugins : \A p \in ImportedSet(plugins, q) \ {q} :
                (plugins[q].state = CP_PLUGIN_ACTIVE
                 /\ plugins[p].state = CP_PLUGIN_ACTIVE) =>
                    LET ip == FirstIndex(events', Ev(p, CP_PLUGIN_ACTIVE, CP_PLUGIN_STOPPING))
                        iq == FirstIndex(events', Ev(q, CP_PLUGIN_ACTIVE, CP_PLUGIN_STOPPING))
                    IN iq > 0 /\ iq < ip ]_vars

\* every registered plug-in is RESOLVED or ACTIVE
AllResolvedOrActive ==
    \A q \in DOMAIN plugins :
        ~plugins[q].freed
        /\ plugins[q].state \in {CP_PLUGIN_RESOLVED, CP_PLUGIN_ACTIVE}

\* A and B import each other and both are ACTIVE
CycleActive ==
    /\ {"A", "B"} \subseteq DOMAIN plugins
    /\ plugins["A"].plugin = Graph("A", {"B"})
    /\ plugins["B"].plugin = Graph("B", {"A"})
    /\ plugins["A"].state = CP_PLUGIN_ACTIVE
    /\ plugins["B"].state = CP_PLUGIN_ACTIVE

\* C10: uninstall(P) and uninstall-all on plug-ins that are RESOLVED or
\* ACTIVE never run for ever, whatever the import graph; for A and B
\* importing each other and both ACTIVE, uninstall(A) stops B, then A, and
\* returns with A removed from the plug-in map.
UninstallTerminates ==
    [][ /\ ( /\ AllResolvedOrActive
             /\ \/ \E p \in DOMAIN plugins : IsCall("uninstall", p)
                \/ IsCall("uninstall_all", "") )
           => halt' # "hang"
        /\ (CycleActive /\ IsCall("uninstall", "A")) =>
              /\ halt' = "run"
              /\ "A" \notin DOMAIN plugins'
              /\ LET ia == FirstIndex(events', Ev("A", CP_PLUGIN_ACTIVE, CP_PLUGIN_STOPPING))
                     ib == FirstIndex(events', Ev("B", CP_PLUGIN_ACTIVE, CP_PLUGIN_STOPPING))
                 IN ib > 0 /\ ib < ia ]_vars

\* C11: from any reachable state, stop-all followed by uninstall-all returns
\* and leaves the plug-in map, the extension-point map and the extensions
\* map empty, started_plugins empty and no runtime library open.
UninstallAllEmpties ==
    [][ (halt = "run" /\ last.op = "stop_all" /\ IsCall("uninstall_all", ""))
        => /\ halt' = "run"
           /\ plugins' = <<>>
           /\ ext_points' = <<>>
           /\ extensions' = <<>>
           /\ started_plugins' = <<>>
           /\ \A p \in DOMAIN plugins' : ~plugins'[p].runtime_lib ]_vars

\* C12: when install(D) succeeds and uninstall(D.id) is the next call, the
\* uninstall returns CP_OK and the plug-in map, the extension-point map and
\* the extensions map (keys, values and the order of every extension list)
\* are what they were before the install.
InstallUninstallRoundTrip ==
    (last.op = "uninstall" /\ before # <<>>) =>
        /\ halt = "run" /\ last.status = CP_OK
        /\ plugins = before[1].plugins
        /\ ext_points = before[1].ext_points
        /\ extensions = before[1].extensions

\* a plug-in with an extension was installed and uninstalled at once while
\* another plug-in's extension of the same point stays registered
InstallUninstallRoundTripWitness ==
    /\ last.op = "uninstall" /\ before # <<>> /\ halt = "run"
    /\ last.id \notin DOMAIN plugins
    /\ events = << Ev(last.id, CP_PLUGIN_INSTALLED, CP_PLUGIN_UNINSTALLED) >>
    /\ \E epid \in DOMAIN extensions :
          /\ extensions[epid] # <<>>
          /\ Contains(before[1].installed.extensions, epid)
          /\ Contains(before[1].installed.ext_points, epid)

\* C13: installing a descriptor whose identifier is already registered
\* returns CP_ERR_CONFLICT, delivers no event and leaves the registered
\* plug-in untouched: its state, its edges, its entry in started_plugins and
\* its registered extension points and extensions are unchanged.
DuplicateInstallConflict ==
    [][ \A id \in DOMAIN plugins :
          IsCall("install", id) =>
             /\ Returned(CP_ERR_CONFLICT)
             /\ events' = <<>>
             /\ plugins' = plugins
             /\ started_plugins' = started_plugins
             /\ ext_points' = ext_points
             /\ extensions' = extensions ]_vars

\* C14: when install(D) of an identifier not yet registered fails, with
\* CP_ERR_CONFLICT because an extension point of D is already in the point
\* map or with CP_ERR_RESOURCE, the install is rolled back: the plug-in map
\* does not contain D's identifier and the plug-in map, the extension-point
\* map and the extensions map are what they were before the call.
InstallFailureRollsBack ==
    [][ \A id \in Ids \ DOMAIN plugins :
          (IsCall("install", id) /\ halt' = "run"
             /\ last'.status \in {CP_ERR_CONFLICT, CP_ERR_RESOURCE})
          => /\ id \notin DOMAIN plugins'
             /\ plugins' = plugins
             /\ ext_points' = ext_points
             /\ extensions' = extensions ]_vars

\* the uses the context holds of descriptor d
UseCount(d) == IF d \in DOMAIN use_count THEN use_count[d] ELSE 0

\* C15: between public calls, after any sequence of successful and failed
\* installs and of uninstalls, the uses the context holds of a descriptor
\* are 1 if a registered record refers to it and 0 otherwise (the host of
\* this model holds no handle of its own); a failed install leaves the
\* use-count as it was.
UseCountMatchesRecords ==
    halt = "run" =>
        \A d \in Catalogue :
            UseCount(d) = IF \E p \in DOMAIN plugins :
                                ~plugins[p].freed /\ plugins[p].plugin = d
                          THEN 1 ELSE 0

\* the handles the host holds of descriptor d
Held(d) == IF d \in DOMAIN held THEN held[d] ELSE 0

\* the step is the release of a handle of descriptor d
IsRelease(d) ==
    /\ last'.op = "release" /\ last'.id = d.identifier
    /\ last'.serial = d.serial /\ ncalls' = ncalls + 1

\* The handles of C16 in the registry of pcontrol.c: when the host holds
\* n >= 1 handles of a plug-in's descriptor and the plug-in is unloaded, the
\* unload does not free the descriptor; get and unload of an identifier that
\* is not registered return CP_ERR_UNKNOWN; and the release of a handle of an
\* unloaded plug-in frees the descriptor exactly when it is the last handle
\* held, the descriptor not having been freed before.
HandleSurvivesUnload ==
    [][ /\ \A id \in DOMAIN reg_plugins :
              (Held(heap[reg_plugins[id]].plugin) >= 1 /\ IsCall("unload", id))
              => /\ Returned(CP_OK)
                 /\ id \notin DOMAIN reg_plugins'
                 /\ heap[reg_plugins[id]].plugin \notin freed_infos'
        /\ \A id \in RegIds \ DOMAIN reg_plugins :
              (IsCall("unload", id) \/ (IsCall("get", id) /\ nfaults' = nfaults))
              => Returned(CP_ERR_UNKNOWN) /\ held' = held
        /\ \A rp \in DOMAIN heap :
              ( /\ heap[rp].state = CP_PLUGIN_UNINSTALLED
                /\ Held(heap[rp].plugin) >= 1
                /\ IsRelease(heap[rp].plugin) )
              => /\ halt' = "run"
                 /\ heap[rp].plugin \notin freed_infos
                 /\ (heap[rp].plugin \in freed_infos')
                       <=> (Held(heap[rp].plugin) = 1) ]_vars

\* the host got a handle of a plug-in, the plug-in was unloaded and the
\* release of the handle, the last call, has freed the descriptor
HandleSurvivesUnloadWitness ==
    /\ halt = "run" /\ last.op = "release"
    /\ \E rp \in DOMAIN heap :
          /\ heap[rp].plugin.serial = last.serial
          /\ heap[rp].state = CP_PLUGIN_UNINSTALLED
          /\ heap[rp].freed
          /\ heap[rp].plugin \in freed_infos
          /\ Held(heap[rp].plugin) = 0
          /\ heap[rp].plugin.identifier \notin DOMAIN reg_plugins

\* C16: a descriptor the host holds stays valid across uninstall: in the
\* context of part_001, uninstall of a registered plug-in returns CP_OK,
\* removes the identifier from the plug-in map and gives up exactly the one
\* use the registered record held of the descriptor, so that the uses of the
\* host keep it alive; start, stop and uninstall of an identifier that is
\* not registered return CP_ERR_UNKNOWN.
UninstallKeepsHandles ==
    [][ /\ \A id \in DOMAIN plugins :
              (~plugins[id].freed /\ IsCall("uninstall", id))
              => /\ Returned(CP_OK)
                 /\ id \notin DOMAIN plugins'
                 /\ LET d == plugins[id].plugin IN
                    (IF d \in DOMAIN use_count' THEN use_count'[d] ELSE 0)
                       = UseCount(d) - 1
        /\ \A id \in Ids \ DOMAIN plugins :
              ( /\ nfaults' = nfaults
                /\ IsCall("start", id) \/ IsCall("stop", id) \/ IsCall("uninstall", id) )
              => Returned(CP_ERR_UNKNOWN) ]_vars

\* the events of evs about plug-in p that leave a state from RESOLVED up
RECURSIVE StartEventsOf(_, _)
StartEventsOf(evs, p) ==
    IF evs = <<>> THEN <<>>
    ELSE (IF Head(evs).plugin_id = p /\ Head(evs).old_state >= CP_PLUGIN_RESOLVED
          THEN <<Head(evs)>> ELSE <<>>) \o StartEventsOf(Tail(evs), p)

\* C17: when the start function of plug-in P reports failure during a start
\* call, the call returns CP_ERR_RUNTIME after delivering for P exactly
\* RESOLVED->STARTING, STARTING->STOPPING and STOPPING->RESOLVED; on return
\* P is RESOLVED and not in started_plugins, and no STARTING->ACTIVE event
\* was delivered for P.
StartFailureRollsBack ==
    [][ \A id \in Ids, p \in Ids :
          (IsCall("start", id) /\ <<"start_func", p>> \in last'.fired)
          => /\ Returned(CP_ERR_RUNTIME)
             /\ StartEventsOf(events', p) =
                   << Ev(p, CP_PLUGIN_RESOLVED, CP_PLUGIN_STARTING),
                      Ev(p, CP_PLUGIN_STARTING, CP_PLUGIN_STOPPING),
                      Ev(p, CP_PLUGIN_STOPPING, CP_PLUGIN_RESOLVED) >>
             /\ plugins'[p].state = CP_PLUGIN_RESOLVED
             /\ ~Contains(started_plugins', p) ]_vars

\* the faults of opening the runtime library of p or resolving its symbols
RuntimeFaults(p) ==
    {<<"dlopen", p>>, <<"dlsym_start", p>>, <<"dlsym_stop", p>>}

\* C18: when plug-in A, INSTALLED and without imports, has a runtime library
\* that cannot be opened or a start or stop symbol that cannot be resolved,
\* start(A) returns CP_ERR_RUNTIME and delivers no event; A stays INSTALLED,
\* its library handle and its start and stop pointers are NULL, and its
\* record is as before the call, so that start(A) can be tried again.
RuntimeLoadFailure ==
    [][ \A id \in DOMAIN plugins :
          ( /\ ~plugins[id].freed
            /\ plugins[id].state = CP_PLUGIN_INSTALLED
            /\ plugins[id].plugin.imports = <<>>
            /\ IsCall("start", id)
            /\ last'.fired \cap RuntimeFaults(id) # {} )
          => /\ Returned(CP_ERR_RUNTIME)
             /\ events' = <<>>
             /\ plugins'[id].state = CP_PLUGIN_INSTALLED
             /\ ~plugins'[id].runtime_lib
             /\ ~plugins'[id].start_func
             /\ ~plugins'[id].stop_func
             /\ plugins' = plugins
             /\ started_plugins' = started_plugins ]_vars

\* the start of a plug-in without imports has just failed because its start
\* symbol was not found in the library it had opened
RuntimeLoadFailureWitness ==
    /\ halt = "run" /\ last.op = "start" /\ last.status = CP_ERR_RUNTIME
    /\ last.fired = {<<"dlsym_start", last.id>>}
    /\ last.id \in DOMAIN plugins
    /\ plugins[last.id].plugin.imports = <<>>
    /\ plugins[last.id].plugin.lib_path
    /\ plugins[last.id].state = CP_PLUGIN_INSTALLED
    /\ events = <<>>

\* in the map pl every non-optional import of p is a registered plug-in of
\* a matching version in state RESOLVED or above
ImportsResolvedIn(pl, p) ==
    \A k \in 1 .. Len(pl[p].plugin.imports) :
        LET i == pl[p].plugin.imports[k] IN
        ~i.optional =>
            /\ i.plugin_id \in DOMAIN pl
            /\ VersionMatches(pl[i.plugin_id].plugin.version, i)
            /\ pl[i.plugin_id].state >= CP_PLUGIN_RESOLVED

\* B imports A in version 1.3 with rule equivalent
BImportsA13 ==
    Descriptor("B", <<1, 0, 0, 0>>,
               <<VersionedImport("A", <<1, 3, 0, 0>>, CP_MATCH_EQUIVALENT)>>,
               FALSE, FALSE, FALSE, <<>>, <<>>)

InstalledHasNoLibrary ==
    halt = "run" =>
        \A p \in DOMAIN plugins :
            (~plugins[p].freed /\ plugins[p].state = CP_PLUGIN_INSTALLED) =>
                /\ ~plugins[p].runtime_lib
                /\ ~plugins[p].start_func
                /\ ~plugins[p].stop_func

\* C21: start(P) on a plug-in P that is ACTIVE returns CP_OK, delivers no
\* event, calls no function of a plug-in or of the loader, and leaves the
\* plug-in map with the state and the edges of every plug-in and the
\* started_plugins list unchanged.
StartIdempotent ==
    [][ \A id \in DOMAIN plugins :
          (plugins[id].state = CP_PLUGIN_ACTIVE /\ IsCall("start", id))
          => /\ Returned(CP_OK)
             /\ events' = <<>>
             /\ callbacks' = <<>>
             /\ last'.fired = {}
             /\ started_plugins' = started_plugins
             /\ DOMAIN plugins' = DOMAIN plugins
             /\ \A q \in DOMAIN plugins :
                   /\ plugins'[q].state = plugins[q].state
                   /\ plugins'[q].imported = plugins[q].imported
                   /\ plugins'[q].importing = plugins[q].importing
                   /\ plugins'[q].runtime_lib = plugins[q].runtime_lib ]_vars

\* start(B) has returned CP_OK without delivering an event: B, importing A,
\* was ACTIVE already when it was called
StartIdempotentWitness ==
    /\ halt = "run" /\ last.op = "start" /\ last.id = "B"
    /\ last.status = CP_OK /\ events = <<>> /\ callbacks = <<>>
    /\ "B" \in DOMAIN plugins
    /\ plugins["B"].state = CP_PLUGIN_ACTIVE
    /\ plugins["B"].imported = <<"A">>
    /\ started_plugins = <<"A", "B">>

\* the events of evs that tell a transition from INSTALLED to RESOLVED
ResolvedEvents(evs) ==
    { i \in 1 .. Len(evs) : /\ evs[i].old_state = CP_PLUGIN_INSTALLED
                            /\ evs[i].new_state = CP_PLUGIN_RESOLVED }

\* C22: resolving a plug-in whose state is RESOLVED or above, as the first
\* step of start, changes nothing: resolve_plugin returns CP_OK with no event
\* delivered and every edge, runtime handle and flag as before; and the start
\* call as a whole delivers no INSTALLED->RESOLVED event for any plug-in and
\* changes no edge and no runtime handle.
ResolveIdempotent ==
    [][ \A id \in DOMAIN plugins :
          ( /\ ~plugins[id].freed
            /\ plugins[id].state >= CP_PLUGIN_RESOLVED
            /\ IsCall("start", id) )
          => /\ resolve_plugin(Call({}), id) = [Call({}) EXCEPT !.ret = CP_OK]
             /\ ResolvedEvents(events') = {}
             /\ DOMAIN plugins' = DOMAIN plugins
             /\ \A q \in DOMAIN plugins :
                   /\ plugins'[q].imported = plugins[q].imported
                   /\ plugins'[q].importing = plugins[q].importing
                   /\ plugins'[q].runtime_lib = plugins[q].runtime_lib
                   /\ plugins'[q].start_func = plugins[q].start_func
                   /\ plugins'[q].stop_func = plugins[q].stop_func ]_vars

\* C23: start, stop and uninstall of an identifier that is not in the
\* plug-in map return CP_ERR_UNKNOWN, deliver no event and leave the plug-in
\* map with every state and edge, the extension-point map, the extensions
\* map and started_plugins unchanged.
UnknownIdRejected ==
    [][ \A id \in Ids \ DOMAIN plugins :
          (IsCall("start", id) \/ IsCall("stop", id) \/ IsCall("uninstall", id))
          => /\ Returned(CP_ERR_UNKNOWN)
             /\ events' = <<>>
             /\ plugins' = plugins
             /\ ext_points' = ext_points
             /\ extensions' = extensions
             /\ started_plugins' = started_plugins ]_vars

\* stop of an identifier that is not registered has just returned
\* CP_ERR_UNKNOWN in a context that has an ACTIVE plug-in with an importing
\* edge and a registered extension
UnknownIdRejectedWitness ==
    /\ halt = "run" /\ last.op = "stop" /\ last.status = CP_ERR_UNKNOWN
    /\ last.id \notin DOMAIN plugins
    /\ started_plugins # <<>>
    /\ extensions # <<>>
    /\ \E q \in DOMAIN plugins :
          plugins[q].state = CP_PLUGIN_ACTIVE /\ plugins[q].importing # <<>>

\* the only import of the registered plug-in p is optional and names a
\* plug-in that is not installed
OnlyImportOptionalMissing(p) ==
    /\ Len(plugins[p].plugin.imports) = 1
    /\ plugins[p].plugin.imports[1].optional
    /\ plugins[p].plugin.imports[1].plugin_id \notin DOMAIN plugins

\* C28: when the only import X of plug-in B is optional and X is not
\* installed, start(B) without any failure of the environment returns CP_OK
\* and leaves B ACTIVE with an empty imported list, and no importing list
\* gains an entry.
OptionalMissingImport ==
    [][ \A id \in DOMAIN plugins :
          ( /\ ~plugins[id].freed
            /\ OnlyImportOptionalMissing(id)
            /\ IsCall("start", id) /\ nfaults' = nfaults )
          => /\ Returned(CP_OK)
             /\ plugins'[id].state = CP_PLUGIN_ACTIVE
             /\ plugins'[id].imported = <<>>
             /\ ~plugins'[id].imported_null
             /\ \A q \in DOMAIN plugins :
                   plugins'[q].importing = plugins[q].importing ]_vars

\* start(B) has just resolved and started B, whose only import, of C, is
\* optional while C is not installed
OptionalMissingImportWitness ==
    /\ halt = "run" /\ last.op = "start" /\ last.status = CP_OK
    /\ last.id \in DOMAIN plugins
    /\ OnlyImportOptionalMissing(last.id)
    /\ plugins[last.id].state = CP_PLUGIN_ACTIVE
    /\ plugins[last.id].imported = <<>>
    /\ events = << Ev(last.id, CP_PLUGIN_INSTALLED, CP_PLUGIN_RESOLVED),
                   Ev(last.id, CP_PLUGIN_RESOLVED, CP_PLUGIN_STARTING),
                   Ev(last.id, CP_PLUGIN_STARTING, CP_PLUGIN_ACTIVE) >>

\* C24: every call of install, start, stop, stop-all, uninstall and
\* uninstall-all that returns, with whatever status, leaves the hold count of
\* the calling executor on the context lock as it was before the call; the
\* executor holds the lock at every event delivered and every plug-in
\* function called meanwhile, also inside the stop-all that uninstall-all
\* calls.
LockBalance ==
    [][ (ncalls' = ncalls + 1 /\ halt' = "run")
        => /\ lock' = lock
           /\ \A i \in 1 .. Len(observed') :
                 /\ observed'[i].lock.owner = Host
                 /\ observed'[i].lock.count >= 1
           /\ \A i \in 1 .. Len(callbacks') :
                 /\ callbacks'[i].lock.owner = Host
                 /\ callbacks'[i].lock.count >= 1 ]_vars

\* uninstall-all has returned after it stopped a plug-in inside its nested
\* stop-all, the lock being held twice, and uninstalled it with the lock held
\* once; the lock is free again
LockBalanceWitness ==
    /\ halt = "run" /\ last.op = "uninstall_all"
    /\ lock = Unlocked
    /\ \E i, j \in 1 .. Len(observed) :
          /\ i < j
          /\ observed[i].lock = [owner |-> Host, count |-> 2]
          /\ events[i].new_state = CP_PLUGIN_STOPPING
          /\ observed[j].lock = [owner |-> Host, count |-> 1]
          /\ events[j].new_state = CP_PLUGIN_UNINSTALLED

\* the state plug-in id had before event i of evs: the new state of the
\* event delivered last for it, or the state recorded in pl before the call,
\* UNINSTALLED when id was not registered
StateBefore(pl, evs, i, id) ==
    LET earlier == { j \in 1 .. (i - 1) : evs[j].plugin_id = id } IN
    IF earlier # {}
    THEN evs[CHOOSE j \in earlier : \A k \in earlier : k <= j].new_state
    ELSE IF id \in DOMAIN pl THEN pl[id].state ELSE CP_PLUGIN_UNINSTALLED

\* C29: at every delivery of a plug-in event (old_state, new_state) the
\* recorded state of the subject plug-in is new_state, its state just before
\* the transition was old_state, and the executor delivering the event holds
\* the context lock.
ListenersSeeNewState ==
    [][ ncalls' = ncalls + 1
        => /\ Len(observed') = Len(events')
           /\ \A i \in 1 .. Len(events') :
                 /\ observed'[i].state = events'[i].new_state
                 /\ events'[i].old_state =
                       StateBefore(plugins, events', i, events'[i].plugin_id)
                 /\ observed'[i].lock.owner = Host
                 /\ observed'[i].lock.count >= 1 ]_vars

\* a start function has just failed: the listeners saw the plug-in STARTING,
\* then STOPPING, then RESOLVED, each time with the lock held
ListenersSeeNewStateWitness ==
    /\ halt = "run" /\ last.op = "start" /\ last.status = CP_ERR_RUNTIME
    /\ Len(events) >= 3
    /\ LET n == Len(events) IN
       /\ events[n - 2].new_state = CP_PLUGIN_STARTING
       /\ events[n - 1] = Ev(events[n].plugin_id, CP_PLUGIN_STARTING, CP_PLUGIN_STOPPING)
       /\ events[n] = Ev(events[n].plugin_id, CP_PLUGIN_STOPPING, CP_PLUGIN_RESOLVED)
       /\ observed[n - 2].state = CP_PLUGIN_STARTING
       /\ observed[n - 1].state = CP_PLUGIN_STOPPING
       /\ observed[n].state = CP_PLUGIN_RESOLVED
       /\ observed[n].lock = [owner |-> Host, count |-> 1]

\* C30: the start-invocation counter is 1 during every call of a start
\* function and the stop-invocation counter is 1 during every call of a stop
\* function, the other counter being 0; a stop function called to roll back
\* a failed start runs under the stop-invocation counter too; both counters
\* are 0 at every event delivery and when the public call has returned.
InvocationCounters ==
    [][ ncalls' = ncalls + 1
        => /\ halt' = "run" => (start_invocation' = 0 /\ stop_invocation' = 0)
           /\ \A i \in 1 .. Len(observed') :
                 /\ observed'[i].start_invocation = 0
                 /\ observed'[i].stop_invocation = 0
           /\ \A i \in 1 .. Len(callbacks') :
                 /\ callbacks'[i].start_invocation =
                       (IF callbacks'[i].func = "start" THEN 1 ELSE 0)
                 /\ callbacks'[i].stop_invocation =
                       (IF callbacks'[i].func = "stop" THEN 1 ELSE 0)
           /\ \A p \in DOMAIN plugins' :
                 (<<"start_func", p>> \in last'.fired /\ plugins'[p].stop_func)
                 => \E i \in 1 .. Len(callbacks') :
                       /\ callbacks'[i].func = "stop"
                       /\ callbacks'[i].plugin = p
                       /\ callbacks'[i].state = CP_PLUGIN_STOPPING
                       /\ callbacks'[i].stop_invocation = 1 ]_vars

\* the start function of a plug-in has failed and its stop function was
\* called to roll back, each under its own counter
InvocationCountersWitness ==
    /\ halt = "run" /\ last.op = "start" /\ last.status = CP_ERR_RUNTIME
    /\ start_invocation = 0 /\ stop_invocation = 0
    /\ Len(callbacks) >= 2
    /\ LET n == Len(callbacks) IN
       /\ callbacks[n - 1].func = "start"
       /\ callbacks[n - 1].state = CP_PLUGIN_STARTING
       /\ callbacks[n - 1].start_invocation = 1
       /\ callbacks[n].func = "stop"
       /\ callbacks[n].plugin = callbacks[n - 1].plugin
       /\ callbacks[n].state = CP_PLUGIN_STOPPING
       /\ callbacks[n].stop_invocation = 1

\* the version v as a number: its first n components, a missing one being
\* 0, as the digits of a numeral in a base above every component
RECURSIVE VersionValue(_, _)
VersionValue(v, n) ==
    IF n = 0 THEN 0
    ELSE VersionValue(v, n - 1) * (MaxComponent + 1)
         + (IF n <= Len(v) THEN v[n] ELSE 0)

\* cmp(a, b, n) of the version match predicate
cmp(a, b, n) ==
    IF VersionValue(a, n) < VersionValue(b, n) THEN -1
    ELSE IF VersionValue(a, n) > VersionValue(b, n) THEN 1 ELSE 0

\* the version match predicate fails for installed a and required b
PredicateFails(rule, a, b) ==
    CASE rule = CP_MATCH_PERFECT -> cmp(a, b, 4) # 0
      [] rule = CP_MATCH_EQUIVALENT -> cmp(a, b, 2) # 0 \/ cmp(a, b, 4) < 0
      [] rule = CP_MATCH_COMPATIBLE -> cmp(a, b, 1) # 0 \/ cmp(a, b, 4) < 0
      [] rule = CP_MATCH_GREATEROREQUAL -> cmp(a, b, 4) < 0
      [] rule = CP_MATCH_NONE -> FALSE

\* C27: whenever the import check has been made on an import of the
\* installed plug-in A, of version a, it has reported a mismatch (status
\* CP_ERR_DEPENDENCY and no plug-in) exactly when the import has a version
\* b and, by its rule: perfect, cmp(a,b,4) # 0; equivalent, cmp(a,b,2) # 0
\* or cmp(a,b,4) < 0; compatible, cmp(a,b,1) # 0 or cmp(a,b,4) < 0;
\* greater-or-equal, cmp(a,b,4) < 0; none, never. Otherwise, and always
\* when the import has no version, it has answered CP_OK with A.
VersionMatchPredicate ==
    last.op = "resolve_import" =>
        LET a == plugins[last.id].plugin.version
            i == last.import
            mismatch == /\ i.version # NoVersion
                        /\ PredicateFails(i.match, a, i.version)
        IN
        /\ (last.status = CP_ERR_DEPENDENCY) <=> mismatch
        /\ (last.status = CP_OK) <=> ~mismatch
        /\ last.ip = IF mismatch THEN NULL ELSE last.id

\* A 1.1 is installed; the import of A 1.1.0.1 under the rule equivalent
\* has been checked and has reported a mismatch, although the first two
\* components are equal
VersionMatchPredicateWitness ==
    /\ last.op = "resolve_import"
    /\ plugins[last.id].plugin.version = <<1, 1>>
    /\ last.import.version = <<1, 1, 0, 1>>
    /\ last.import.match = CP_MATCH_EQUIVALENT
    /\ last.status = CP_ERR_DEPENDENCY

\* C26: of the cp_destroy calls that follow n successful cp_init calls, each
\* of the first n-1 tears nothing down (the loggers, the logging limit and
\* the mutex are as before and no teardown function is called) and the n-th
\* does the teardown (contexts and descriptors destroyed, loggers and mutex
\* gone, count 0); a cp_init that fails with CP_ERR_RESOURCE leaves the
\* count as it was and no resource behind; and the first successful cp_init
\* after a teardown creates the logger list and the mutex anew.
FrameworkRefCount ==
    [][ /\ (fhist'.destroys = fhist.destroys + 1 /\ halt' = "run") =>
              IF fhist'.destroys = fhist'.inits
              THEN /\ last'.calls = Teardown
                   /\ loggers' = <<>>
                   /\ framework_mutex' = FALSE
                   /\ initialized' = 0
              ELSE /\ last'.calls = <<>>
                   /\ loggers' = loggers /\ loggers' # <<>>
                   /\ log_min_severity' = log_min_severity
                   /\ framework_mutex' = framework_mutex /\ framework_mutex'
                   /\ initialized' > 0
        /\ (last'.op = "init" /\ last'.status = CP_ERR_RESOURCE) =>
              /\ initialized' = initialized
              /\ fhist' = fhist
              /\ loggers' = <<>> /\ framework_mutex' = FALSE
        /\ (last'.op = "init" /\ last'.status = CP_OK
                /\ fhist.destroys = fhist.inits /\ fhist'.inits = 1) =>
              /\ initialized' = 1
              /\ loggers' = << <<>> >>
              /\ framework_mutex' = TRUE
      ]_vars

\* cp_init has succeeded three times and the host has added two loggers;
\* the second cp_destroy has just returned and both loggers are still there
FrameworkRefCountWitness ==
    /\ last.op = "destroy"
    /\ fhist = [inits |-> 3, destroys |-> 2]
    /\ loggers # <<>> /\ Len(loggers[1]) = 2
    /\ last.calls = <<>>

\* the thread t is between cpi_lock_context and cpi_unlock_context
InCall(t) == thread[t].pc \in {"locked", "resolved"}

\* the entries of each thread are next to each other in log
Contiguous(log) ==
    \A i, k \in DOMAIN log :
        (i < k /\ log[i].thread = log[k].thread) =>
            \A j \in i .. k : log[j].thread = log[i].thread

\* the context, the status of each thread and the events are those of the
\* call of thread t made alone on the context the threads found, followed
\* by the call of thread u made alone
SequentialResult(t, u) ==
    With(RunCall(tstart[1], t, thread[t].call[1]), LAMBDA c1 :
    With(RunCall(Context(c1), u, thread[u].call[1]), LAMBDA c2 :
        /\ c1.halt = "run" /\ c2.halt = "run"
        /\ Context(Call({})) = Context(c2)
        /\ thread[t].status = c1.ret
        /\ thread[u].status = c2.ret
        /\ tlog = Tagged(c1.events, t) \o Tagged(c2.events, u)))

\* C25: with two threads each making one call of install, start, stop or
\* uninstall on the same context, at most one thread is between acquiring
\* and releasing the context lock, and it owns the lock; the events of one
\* call are never interleaved with those of the other; and when both calls
\* have returned, the context, the two statuses and the events delivered
\* are those of the two calls made one after the other in one of the two
\* orders.
Serialised ==
    /\ \A t, u \in Threads : (InCall(t) /\ InCall(u)) => t = u
    /\ \A t \in Threads : InCall(t) => lock = [owner |-> t, count |-> 1]
    /\ Contiguous(tlog)
    /\ (halt = "run" /\ \A t \in Threads : thread[t].pc = "done") =>
          (SequentialResult("T1", "T2") \/ SequentialResult("T2", "T1"))

\* T1 has started B and then T2
\* has stopped it: the events of T1 are followed by those of T2, and B is
\* RESOLVED
SerialisedWitness ==
    /\ halt = "run"
    /\ \A t \in Threads : thread[t].pc = "done"
    /\ thread["T1"].call[1].op = "start" /\ thread["T1"].call[1].id = "B"
    /\ thread["T2"].call[1].op = "stop" /\ thread["T2"].call[1].id = "B"
    /\ "B" \in DOMAIN plugins /\ plugins["B"].state = CP_PLUGIN_RESOLVED
    /\ \E i, j \in DOMAIN tlog : tlog[i].thread = "T1" /\ tlog[j].thread = "T2"

\* C33: after a start, stop or uninstall call has returned, the processed
\* flag of every registered plug-in is clear.
TraversalFlagsClear ==
    (halt = "run" /\ last.op \in {"start", "stop", "uninstall"}) =>
        \A p \in DOMAIN plugins :
            ~plugins[p].freed => ~plugins[p].processed

\* C34: whenever a call has returned, no registered plug-in is in state
\* STARTING or STOPPING, and a start call that has returned CP_ERR_RESOURCE
\* has left its plug-in RESOLVED.
NoTransientState ==
    halt = "run" =>
        /\ \A p \in DOMAIN plugins :
              ~plugins[p].freed =>
                  plugins[p].state \notin {CP_PLUGIN_STARTING, CP_PLUGIN_STOPPING}
        /\ (last.op = "start" /\ last.status = CP_ERR_RESOURCE
               /\ last.id \in DOMAIN plugins
               /\ \E f \in last.fired : f[1] = "malloc")
           => plugins[last.id].state \in {CP_PLUGIN_INSTALLED, CP_PLUGIN_RESOLVED}

\* the transitions of the plug-in state machine
LegalTransitions ==
    { <<CP_PLUGIN_UNINSTALLED, CP_PLUGIN_INSTALLED>>,
      <<CP_PLUGIN_INSTALLED, CP_PLUGIN_RESOLVED>>,
      <<CP_PLUGIN_RESOLVED, CP_PLUGIN_STARTING>>,
      <<CP_PLUGIN_STARTING, CP_PLUGIN_ACTIVE>>,
      <<CP_PLUGIN_STARTING, CP_PLUGIN_STOPPING>>,
      <<CP_PLUGIN_ACTIVE, CP_PLUGIN_STOPPING>>,
      <<CP_PLUGIN_STOPPING, CP_PLUGIN_RESOLVED>>,
      <<CP_PLUGIN_RESOLVED, CP_PLUGIN_INSTALLED>>,
      <<CP_PLUGIN_INSTALLED, CP_PLUGIN_UNINSTALLED>> }

\* the plug-ins of pl whose record has not been freed
Registered(pl) == [p \in { q \in DOMAIN pl : ~pl[q].freed } |-> pl[p]]

\* the state of the plug-in id once the events evs have been delivered, pl
\* being the plug-ins before them
StateAfter(pl, evs, id) == StateBefore(pl, evs, Len(evs) + 1, id)

\* C35: in every call that returns, each event delivered is a transition of
\* the state machine, its old_state is the new_state of the previous event
\* of the same plug-in (the state the plug-in had before the call, if it is
\* the first), and the state each plug-in has after the call is the
\* new_state of its last event (unchanged without an event).
EventContinuity ==
    [][ (ncalls' = ncalls + 1 /\ halt' = "run") =>
          /\ \A i \in 1 .. Len(events') :
                /\ <<events'[i].old_state, events'[i].new_state>> \in LegalTransitions
                /\ events'[i].old_state
                     = StateBefore(Registered(plugins), events', i,
                                   events'[i].plugin_id)
          /\ \A id \in Ids :
                (IF id \in DOMAIN Registered(plugins')
                 THEN plugins'[id].state ELSE CP_PLUGIN_UNINSTALLED)
                  = StateAfter(Registered(plugins), events', id)
      ]_vars

\* the plug-ins of pl that import p, directly or through other plug-ins
TransImporting(pl, p) ==
    { q \in DOMAIN pl : q # p /\ p \in TransImported(pl, q) }

\* C36: in every uninstall call of a registered plug-in P that returns, each
\* X->INSTALLED event has old_state RESOLVED (unresolve reaches no plug-in
\* that is ACTIVE), the RESOLVED->INSTALLED events of the plug-ins that
\* import P come before that of P, INSTALLED->UNINSTALLED of P is the last
\* event, and afterwards every plug-in that imported P, directly or not, is
\* INSTALLED with no imported edge.
UninstallOrdering ==
    [][ \A p \in DOMAIN Registered(plugins) :
          (IsCall("uninstall", p) /\ Returned(CP_OK)) =>
             /\ \A i \in 1 .. Len(events') :
                   events'[i].new_state = CP_PLUGIN_INSTALLED
                       => events'[i].old_state = CP_PLUGIN_RESOLVED
             /\ events' # <<>>
             /\ events'[Len(events')]
                   = Ev(p, CP_PLUGIN_INSTALLED, CP_PLUGIN_UNINSTALLED)
             /\ \A q \in TransImporting(Registered(plugins), p) :
                   /\ q \in DOMAIN plugins'
                   /\ plugins'[q].state = CP_PLUGIN_INSTALLED
                   /\ plugins'[q].imported = <<>>
                   /\ (plugins[p].state >= CP_PLUGIN_RESOLVED
                         /\ plugins[q].state >= CP_PLUGIN_RESOLVED) =>
                        /\ Count(events', Ev(q, CP_PLUGIN_RESOLVED, CP_PLUGIN_INSTALLED)) = 1
                        /\ FirstIndex(events', Ev(q, CP_PLUGIN_RESOLVED, CP_PLUGIN_INSTALLED))
                             < FirstIndex(events', Ev(p, CP_PLUGIN_RESOLVED, CP_PLUGIN_INSTALLED))
      ]_vars

\* C37: a release call on a descriptor that is not in use, if it returns,
\* changes no use count, frees nothing, leaves the registry as it was and
\* has released the data lock it acquired.
DoubleReleaseNoOp ==
    [][ \A d \in DOMAIN held :
          (IsRelease(d) /\ UsedNodes(RegCall({}), d) = {} /\ halt' = "run") =>
             /\ heap' = heap
             /\ used_plugins' = used_plugins
             /\ reg_plugins' = reg_plugins
             /\ freed_infos' = freed_infos
             /\ data_lock' = data_lock
      ]_vars

\* C39: installing again the very descriptor a registered plug-in was
\* installed from returns CP_ERR_CONFLICT and leaves the extension points
\* and the extensions of the context as they were.
SameDescriptorReinstall ==
    [][ \A id \in Ids :
          IsCall("reinstall", id) =>
             /\ Returned(CP_ERR_CONFLICT)
             /\ ext_points' = ext_points
             /\ extensions' = extensions ]_vars

\* the extension points declared by the plug-ins of the map pl
PointsOf(pl) ==
    UNION { { pl[p].plugin.ext_points[i] : i \in 1 .. Len(pl[p].plugin.ext_points) } :
            p \in DOMAIN pl }

\* the points targeted by the extensions of the plug-ins of the map pl
TargetsOf(pl) ==
    UNION { { pl[p].plugin.extensions[i] : i \in 1 .. Len(pl[p].plugin.extensions) } :
            p \in DOMAIN pl }

\* the extensions of the plug-ins of the map pl targeting the point ep
ExtensionsOf(pl, ep) ==
    UNION { { [plugin |-> pl[p].plugin, index |-> i] :
                i \in { j \in 1 .. Len(pl[p].plugin.extensions) :
                          pl[p].plugin.extensions[j] = ep } } :
            p \in DOMAIN pl }

\* the map eps holds exactly the points of the plug-ins of pl, each under its
\* declaring plug-in, and the map exts exactly their extensions, each once,
\* with no empty list
RegistryExact(pl, eps, exts) ==
    /\ DOMAIN eps = PointsOf(pl)
    /\ \A g \in DOMAIN eps :
          /\ eps[g].identifier \in DOMAIN pl
          /\ pl[eps[g].identifier].plugin = eps[g]
    /\ DOMAIN exts = { ep \in TargetsOf(pl) \cup DOMAIN exts : ExtensionsOf(pl, ep) # {} }
    /\ \A ep \in DOMAIN exts :
          /\ exts[ep] # <<>>
          /\ { exts[ep][i] : i \in 1 .. Len(exts[ep]) } = ExtensionsOf(pl, ep)
          /\ Len(exts[ep]) = Cardinality(ExtensionsOf(pl, ep))

\* the entries of the list old still in the list new come first in new, in
\* the order they have in old
OrderKept(old, new) ==
    LET InNew(e) == \E i \in 1 .. Len(new) : new[i] = e
        kept == SelectSeq(old, InNew)
    IN Len(kept) <= Len(new) /\ SubSeq(new, 1, Len(kept)) = kept

\* C31: after every public operation the extension-point map holds exactly
\* the points declared by the registered plug-ins and the extensions map
\* holds, under each target point, exactly the extensions of the registered
\* plug-ins targeting it, with no empty list; the extensions already listed
\* keep their relative order and new ones come after them (installation
\* order).
ExtensionRegistry ==
    [][ (ncalls' = ncalls + 1 /\ halt' = "run") =>
          /\ RegistryExact(Registered(plugins'), ext_points', extensions')
          /\ \A ep \in DOMAIN extensions \cap DOMAIN extensions' :
                OrderKept(extensions[ep], extensions'[ep]) ]_vars

\* C32: whenever the framework is initialised, the cached minimum severity is
\* the least min_severity of the registered loggers, or CP_LOG_NONE when no
\* logger is registered.
LoggerSeverityCache ==
    (halt = "run" /\ initialized > 0) =>
        /\ loggers # <<>>
        /\ LET registered == { loggers[1][i].min_severity : i \in 1 .. Len(loggers[1]) }
           IN log_min_severity =
                 IF registered = {} THEN CP_LOG_NONE
                 ELSE CHOOSE s \in registered : \A r \in registered : s <= r

\* C38: when B is resolved while A is installed and the import of A by B
\* has a version that the installed version of A fails under the match rule
\* of the import, optional or not, the call returns CP_ERR_DEPENDENCY, B is
\* INSTALLED after it, and neither the imported list of B nor the importing
\* list of A records the edge.
VersionMismatchFails ==
    [][ (/\ IsCall("start", "B")
         /\ {"A", "B"} \subseteq DOMAIN plugins
         /\ plugins["B"].state = CP_PLUGIN_INSTALLED
         /\ plugins["B"].plugin.imports[1].version # NoVersion
         /\ PredicateFails(plugins["B"].plugin.imports[1].match,
                           plugins["A"].plugin.version,
                           plugins["B"].plugin.imports[1].version))
        => /\ Returned(CP_ERR_DEPENDENCY)
           /\ plugins'["B"].state = CP_PLUGIN_INSTALLED
           /\ ~Contains(plugins'["B"].imported, "A")
           /\ ~Contains(plugins'["A"].importing, "B") ]_vars

\* the entries what of any thread in tlog after its last reset
SinceReset(what) ==
    Cardinality({ i \in DOMAIN tlog :
                    /\ tlog[i].what = what
                    /\ \A j \in DOMAIN tlog : tlog[j].what = "reset" => j < i })

\* C40: when the threads have returned from their cp_init and cp_destroy
\* calls, the initialization count is the number of successful cp_init calls
\* less the number of cp_destroy calls, and the framework mutex and the
\* logger list have been created once in the current initialized period
\* (and not at all when the framework is not initialized).
ConcurrentInitDestroy ==
    (halt = "run" /\ \A t \in Threads : thread[t].pc = "idle") =>
        /\ initialized = fhist.inits - fhist.destroys
        /\ SinceReset("cpi_create_mutex") = (IF initialized > 0 THEN 1 ELSE 0)
        /\ SinceReset("list_create") = (IF initialized > 0 THEN 1 ELSE 0)

====
